---------------------------- MODULE Spec2Model ----------------------------
(***************************************************************************)
(* A model of the linear-arithmetic rule checkers of the Alethe proof      *)
(* checker (checker/rules/linear_arithmetic.rs): la_rw_eq, la_generic and  *)
(* la_disequality, with the helpers they are built from.                   *)
(*                                                                         *)
(* A rule checker is a function of a proof step (conclusion and args).     *)
(* The state machine draws a step from a bounded set of steps and runs     *)
(* the checker on it; la_generic is run literal by literal, the way its    *)
(* iterator chain (zip, map, try_fold) evaluates it.                       *)
(***************************************************************************)
EXTENDS Integers, Sequences, FiniteSets

(***************************************************************************)
(* BigRational: a pair <<n, d>> in lowest terms with d > 0.                *)
(***************************************************************************)
Abs(x) == IF x < 0 THEN -x ELSE x

RECURSIVE Gcd(_, _)
Gcd(x, y) == IF y = 0 THEN x ELSE Gcd(y, x % y)

\* Ratio::new for d # 0: sign on the numerator, lowest terms.
Ratio(n, d) ==
    LET s == IF d < 0 THEN -1 ELSE 1
        g == Gcd(Abs(n), Abs(d))
    IN  << (s * n) \div g, (s * d) \div g >>

FromInteger(k) == << k, 1 >>
Zero == << 0, 1 >>
One == << 1, 1 >>

RAdd(x, y) == Ratio(x[1] * y[2] + y[1] * x[2], x[2] * y[2])
RMul(x, y) == Ratio(x[1] * y[1], x[2] * y[2])
RNeg(x) == << -x[1], x[2] >>
RAbs(x) == << Abs(x[1]), x[2] >>
\* floor rounds towards minus infinity; \div does so for a positive divisor.
RFloor(x) == << x[1] \div x[2], 1 >>
RIsInteger(x) == x[2] = 1
RIsZero(x) == x[1] = 0
RLess(x, y) == x[1] * y[2] < y[1] * x[2]
\* Ordering of x.cmp(y)
RCmp(x, y) ==
    IF RLess(x, y) THEN "Less" ELSE IF x = y THEN "Equal" ELSE "Greater"
RMin(x, y) == IF RLess(y, x) THEN y ELSE x

(***************************************************************************)
(* Option values.  A third outcome, "Panic", stands for the thread         *)
(* unwinding: BigRational's division panics on a zero divisor.             *)
(***************************************************************************)
Some(v) == [k |-> "Some", v |-> v]
None(v) == [k |-> "None", v |-> v]
Panic(v) == [k |-> "Panic", v |-> v]

\* x / y on BigRational: panics when y is zero.
RDiv(x, y) ==
    IF RIsZero(y) THEN Panic(Zero) ELSE Some(Ratio(x[1] * y[2], x[2] * y[1]))

(***************************************************************************)
(* Terms.  Every term is a record of the same shape, so that any two       *)
(* terms can be compared: equal records are the same hash-consed term.     *)
(***************************************************************************)
Var(name, sort) ==
    [tag |-> "var", name |-> name, sort |-> sort, val |-> Zero, args |-> << >>]
IntLit(n) ==
    [tag |-> "int", name |-> "", sort |-> "Int", val |-> FromInteger(n), args |-> << >>]
RealLit(r) ==
    [tag |-> "real", name |-> "", sort |-> "Real", val |-> r, args |-> << >>]
Op(op, args) ==
    [tag |-> "op", name |-> op, sort |-> "", val |-> Zero, args |-> args]

\* match_term!((op a1 ... an) = t): the operator and the exact arity.
IsOp(t, op, n) == t.tag = "op" /\ t.name = op /\ Len(t.args) = n
\* match_term!((op ...) = t): the operator, any number of arguments.
IsOpAny(t, op) == t.tag = "op" /\ t.name = op

\* Term::try_as_ratio: integer and real terminals only.
TryAsRatio(t) ==
    IF t.tag \in {"int", "real"} THEN Some(t.val) ELSE None(Zero)

(***************************************************************************)
(* simple_operation_to_rational                                            *)
(***************************************************************************)
RECURSIVE simple_operation_to_rational(_)
simple_operation_to_rational(term) ==
    IF IsOp(term, "/", 2) \/ IsOp(term, "div", 2)
    THEN LET n == simple_operation_to_rational(term.args[1])
         IN  IF n.k # "Some" THEN n
             ELSE LET d == simple_operation_to_rational(term.args[2])
                  IN  IF d.k # "Some" THEN d ELSE RDiv(n.v, d.v)
    ELSE IF IsOp(term, "-", 1)
    THEN LET t == simple_operation_to_rational(term.args[1])
         IN  IF t.k # "Some" THEN t ELSE Some(RNeg(t.v))
    ELSE TryAsRatio(term)

(***************************************************************************)
(* flatten_sum: a sequence of [term, polarity]                             *)
(***************************************************************************)
\* The polarities left as they are.
FlipAll_kept(list) == list

\* item.1 = !item.1 on every item of a flattened list
FlipAll(list) ==
    [j \in 1..Len(list) |-> [term |-> list[j].term, polarity |-> ~list[j].polarity]]

RECURSIVE flatten_sum(_)
RECURSIVE FlatMapSum(_, _, _)
\* args[from..].iter().flat_map(flatten_sum), flipped when flip holds
FlatMapSum(args, from, flip) ==
    IF from > Len(args) THEN << >>
    ELSE LET head == flatten_sum(args[from])
         IN  (IF flip THEN FlipAll(head) ELSE head) \o FlatMapSum(args, from + 1, flip)

flatten_sum(term) ==
    IF IsOpAny(term, "+") THEN FlatMapSum(term.args, 1, FALSE)
    ELSE IF IsOp(term, "-", 1) THEN FlipAll(flatten_sum(term.args[1]))
    ELSE IF IsOpAny(term, "-")
    THEN flatten_sum(term.args[1]) \o FlatMapSum(term.args, 2, TRUE)
    ELSE << [term |-> term, polarity |-> TRUE] >>

(***************************************************************************)
(* negate_disequality: Some([op, args]) or None                            *)
(***************************************************************************)
NoArgs == [op |-> "", args |-> << >>]

\* < negated to > and > to <, as if by flipping the sides.
negate_operator_flipped(op) ==
    CASE op = "<" -> Some(">")
      [] op = ">" -> Some("<")
      [] op = "<=" -> Some(">=")
      [] op = ">=" -> Some("<=")
      [] OTHER -> None("")

negate_operator(op) ==
    CASE op = "<" -> Some(">=")
      [] op = ">" -> Some("<=")
      [] op = "<=" -> Some(">")
      [] op = ">=" -> Some("<")
      [] OTHER -> None("")

negate_disequality(term) ==
    IF IsOp(term, "not", 1) /\ term.args[1].tag = "op"
    THEN LET t == term.args[1]
         IN  IF t.name \in {">=", "<=", ">", "<", "="}
             THEN Some([op |-> t.name, args |-> t.args])
             ELSE None(NoArgs)
    ELSE IF term.tag = "op"
    THEN LET nop == negate_operator(term.name)
         IN  IF nop.k = "Some" THEN Some([op |-> nop.v, args |-> term.args])
             ELSE None(NoArgs)
    ELSE None(NoArgs)

(***************************************************************************)
(* LinearComb: coef maps non-constant terms to coefficients, const is the  *)
(* constant term.  Read as a disequality, coef is the left side and const  *)
(* the right side.                                                         *)
(***************************************************************************)
EmptyMap == [t \in {} |-> Zero]

\* LinearComb::new
LinearComb_new == [coef |-> EmptyMap, const |-> Zero]

\* LinearComb::insert
insert(self, key, value) ==
    IF key \in DOMAIN self.coef
    THEN LET new_value == RAdd(self.coef[key], value)
         IN  IF RIsZero(new_value)
             THEN [self EXCEPT !.coef = [t \in DOMAIN self.coef \ {key} |-> self.coef[t]]]
             ELSE [self EXCEPT !.coef[key] = new_value]
    ELSE [self EXCEPT !.coef =
              [t \in DOMAIN self.coef \cup {key} |->
                  IF t = key THEN value ELSE self.coef[t]]]

\* the loop of LinearComb::add over the entries of other (any order)
RECURSIVE AddEntries(_, _, _)
AddEntries(self, other, keys) ==
    IF keys = {} THEN self
    ELSE LET var == CHOOSE t \in keys : TRUE
         IN  AddEntries(insert(self, var, other.coef[var]), other, keys \ {var})

\* LinearComb::add
add(self, other) ==
    LET summed == AddEntries(self, other, DOMAIN other.coef)
    IN  [summed EXCEPT !.const = RAdd(self.const, other.const)]

\* LinearComb::mul
mul(self, scalar) ==
    [coef |-> [t \in DOMAIN self.coef |-> RMul(self.coef[t], scalar)],
     const |-> RMul(self.const, scalar)]

\* LinearComb::neg
neg(self) == mul(self, RNeg(One))

\* LinearComb::sub
sub(self, other) == add(self, neg(other))

\* One iteration of the loop of LinearComb::from_term, on the flattened
\* entry (arg, polarity): Some(result), None (two constants multiplied) or
\* Panic (a division by zero inside a constant).
FromTermEntry(result, entry) ==
    LET arg == entry.term
        polarity_coeff == IF entry.polarity THEN One ELSE RNeg(One)
    IN  IF IsOp(arg, "*", 2)
        THEN LET ra == simple_operation_to_rational(arg.args[1])
                 rb == simple_operation_to_rational(arg.args[2])
             IN  CASE ra.k = "Panic" \/ rb.k = "Panic" -> Panic(result)
                   [] ra.k = "None" /\ rb.k = "None" ->
                        Some(insert(result, arg, RMul(One, polarity_coeff)))
                   [] ra.k = "None" /\ rb.k = "Some" ->
                        Some(insert(result, arg.args[1], RMul(rb.v, polarity_coeff)))
                   [] ra.k = "Some" /\ rb.k = "None" ->
                        Some(insert(result, arg.args[2], RMul(ra.v, polarity_coeff)))
                   [] OTHER -> None(result)
        ELSE LET r == simple_operation_to_rational(arg)
             IN  CASE r.k = "Panic" -> Panic(result)
                   [] r.k = "Some" ->
                        Some([result EXCEPT !.const =
                                 RAdd(result.const, RMul(r.v, polarity_coeff))])
                   [] OTHER -> Some(insert(result, arg, polarity_coeff))

RECURSIVE FromTermLoop(_, _, _)
FromTermLoop(list, j, result) ==
    IF j > Len(list) THEN Some(result)
    ELSE LET r == FromTermEntry(result, list[j])
         IN  IF r.k # "Some" THEN r ELSE FromTermLoop(list, j + 1, r.v)

\* LinearComb::from_term
from_term(term) == FromTermLoop(flatten_sum(term), 1, LinearComb_new)

(***************************************************************************)
(* strengthen: the new operator and disequality; unreachable holds when    *)
(* the unreachable!() arm for < and <= is entered.                         *)
(***************************************************************************)
RECURSIVE MinAbs(_, _, _)
\* disequality.0.values().map(|x| x.abs()).min()
MinAbs(coef, keys, least) ==
    IF keys = {} THEN least
    ELSE LET t == CHOOSE t \in keys : TRUE
         IN  MinAbs(coef, keys \ {t}, RMin(least, RAbs(coef[t])))

MinCoefficient_one(disequality) == One
MinCoefficient(disequality) ==
    IF DOMAIN disequality.coef = {} THEN One
    ELSE LET t == CHOOSE t \in DOMAIN disequality.coef : TRUE
         IN  MinAbs(disequality.coef, DOMAIN disequality.coef \ {t},
                    RAbs(disequality.coef[t]))

strengthen_keeping_strict(op, disequality, a) ==
    [op |-> op, disequality |-> disequality, unreachable |-> op \in {"<", "<="}]
strengthen(op, disequality, a) ==
    LET is_integer == RIsInteger(RMul(disequality.const, a))
    IN  CASE op = ">=" /\ is_integer ->
               [op |-> op, disequality |-> disequality, unreachable |-> FALSE]
          [] op = ">" /\ is_integer ->
               [op |-> ">=",
                disequality |->
                    [disequality EXCEPT !.const =
                        RAdd(RFloor(disequality.const), MinCoefficient(disequality))],
                unreachable |-> FALSE]
          [] op \in {">", ">="} /\ ~is_integer ->
               [op |-> ">=",
                disequality |->
                    [disequality EXCEPT !.const = RAdd(RFloor(disequality.const), One)],
                unreachable |-> FALSE]
          [] op \in {"<", "<="} ->
               [op |-> op, disequality |-> disequality, unreachable |-> TRUE]
          [] OTHER ->
               [op |-> op, disequality |-> disequality, unreachable |-> FALSE]

(***************************************************************************)
(* la_generic, the closure given to map: the item for literal phi and      *)
(* argument a, with the values the closure's locals take on the way.       *)
(*   k      Some (an item), None (return None / ?) or Panic                *)
(*   at     the place the closure returned from                            *)
(*   a      the coefficient                                                *)
(*   neg    the result of negate_disequality                               *)
(*   s1,s2  the linear combinations of the two sides                       *)
(*   moved  s1 - s2 with the constant negated (step 3, first half)         *)
(*   flip   the disequality after the orientation of < and <=              *)
(*   fop    the operator after the orientation, given to strengthen                          *)
(*   strong the disequality after strengthen                               *)
(*   op     the operator of the item                                       *)
(*   diseq  the disequality of the item (after the scaling by a)           *)
(***************************************************************************)
NoItem ==
    [k |-> "None", at |-> "", a |-> Zero, neg |-> NoArgs,
     s1 |-> LinearComb_new, s2 |-> LinearComb_new, moved |-> LinearComb_new,
     flip |-> LinearComb_new, fop |-> "", strong |-> LinearComb_new,
     op |-> "", diseq |-> LinearComb_new]

\* Steps 3 to 5, once the coefficient and both sides are known.
MapSteps_signed(a, negated, s1, s2) ==
    LET diff == sub(s1, s2)
        moved == [diff EXCEPT !.const = RNeg(diff.const)]
        flipped == negated.op \in {"<", "<="}
        flip == IF flipped THEN neg(moved) ELSE moved
        fop == CASE negated.op = "<" -> ">"
                 [] negated.op = "<=" -> ">="
                 [] OTHER -> negated.op
        st == strengthen(fop, flip, a)
        scalar == a
    IN  [NoItem EXCEPT !.k = IF st.unreachable THEN "Panic" ELSE "Some",
                       !.at = IF st.unreachable THEN "strengthen" ELSE "end",
                       !.a = a, !.neg = negated, !.s1 = s1, !.s2 = s2,
                       !.moved = moved, !.flip = flip, !.fop = fop,
                       !.strong = st.disequality, !.op = st.op,
                       !.diseq = mul(st.disequality, scalar)]
MapSteps(a, negated, s1, s2) ==
    LET diff == sub(s1, s2)
        moved == [diff EXCEPT !.const = RNeg(diff.const)]
        flipped == negated.op \in {"<", "<="}
        flip == IF flipped THEN neg(moved) ELSE moved
        fop == CASE negated.op = "<" -> ">"
                 [] negated.op = "<=" -> ">="
                 [] OTHER -> negated.op
        st == strengthen(fop, flip, a)
        scalar == IF st.op = "=" THEN a ELSE RAbs(a)
    IN  [NoItem EXCEPT !.k = IF st.unreachable THEN "Panic" ELSE "Some",
                       !.at = IF st.unreachable THEN "strengthen" ELSE "end",
                       !.a = a, !.neg = negated, !.s1 = s1, !.s2 = s2,
                       !.moved = moved, !.flip = flip, !.fop = fop,
                       !.strong = st.disequality, !.op = st.op,
                       !.diseq = mul(st.disequality, scalar)]

\* A coefficient read from an assignment argument as if it were a term.
Coefficient_assign_read(arg) == simple_operation_to_rational(arg.term)

\* la_generic, lines 228-231: the coefficient of an argument
Coefficient(arg) ==
    IF arg.tag = "Assign" THEN None(Zero) ELSE simple_operation_to_rational(arg.term)

MapLiteral(phi, arg) ==
    LET a == Coefficient(arg)
    IN  IF a.k # "Some"
        THEN [NoItem EXCEPT !.k = a.k, !.at = IF arg.tag = "Assign" THEN "assign" ELSE "arg"]
        ELSE LET negated == negate_disequality(phi)
             IN  IF negated.k # "Some"
                 THEN [NoItem EXCEPT !.at = "negate", !.a = a.v]
                 ELSE IF Len(negated.v.args) # 2
                 THEN [NoItem EXCEPT !.at = "args", !.a = a.v, !.neg = negated.v]
                 ELSE LET s1 == from_term(negated.v.args[1])
                      IN  IF s1.k # "Some"
                          THEN [NoItem EXCEPT !.k = s1.k, !.at = "s1", !.a = a.v,
                                              !.neg = negated.v]
                          ELSE LET s2 == from_term(negated.v.args[2])
                               IN  IF s2.k # "Some"
                                   THEN [NoItem EXCEPT !.k = s2.k, !.at = "s2",
                                                       !.a = a.v, !.neg = negated.v,
                                                       !.s1 = s1.v]
                                   ELSE MapSteps(a.v, negated.v, s1.v, s2.v)

\* la_generic, the closure given to try_fold: the new operator
FoldOperator_last(acc_op, op) == op
FoldOperator(acc_op, op) ==
    CASE op = ">=" -> ">="
      [] acc_op = "=" /\ op = ">" -> ">"
      [] OTHER -> acc_op

\* The Equal arm without Equals.
is_disequality_true_strict(op, right_side) ==
    CASE RCmp(Zero, right_side) = "Less" -> op \in {"<", "<="}
      [] RCmp(Zero, right_side) = "Equal" -> op \in {"<=", ">="}
      [] OTHER -> op \in {">", ">="}

\* la_generic, lines 285-296
is_disequality_true(op, right_side) ==
    CASE RCmp(Zero, right_side) = "Less" -> op \in {"<", "<="}
      [] RCmp(Zero, right_side) = "Equal" -> op \in {"<=", ">=", "="}
      [] OTHER -> op \in {">", ">="}

\* la_generic, lines 280-299: the verdict on the folded disequality
Decide(op, final) ==
    IF DOMAIN final.coef # {} THEN "reject"
    ELSE IF ~is_disequality_true(op, final.const) THEN "accept" ELSE "reject"

(***************************************************************************)
(* la_rw_eq and la_disequality                                             *)
(***************************************************************************)
to_option(b) == IF b THEN "accept" ELSE "reject"

\* la_rw_eq without the comparison of the last occurrence of u.
la_rw_eq_unchecked(conclusion) ==
    IF Len(conclusion) # 1 THEN "reject"
    ELSE LET c == conclusion[1]
         IN  IF /\ IsOp(c, "=", 2)
                /\ IsOp(c.args[1], "=", 2)
                /\ IsOp(c.args[2], "and", 2)
                /\ IsOp(c.args[2].args[1], "<=", 2)
                /\ IsOp(c.args[2].args[2], "<=", 2)
             THEN LET t_1 == c.args[1].args[1]
                      u_1 == c.args[1].args[2]
                      t_2 == c.args[2].args[1].args[1]
                      u_2 == c.args[2].args[1].args[2]
                      t_3 == c.args[2].args[2].args[2]
                  IN  to_option(t_1 = t_2 /\ t_2 = t_3 /\ u_1 = u_2)
             ELSE "reject"

la_rw_eq(conclusion) ==
    IF Len(conclusion) # 1 THEN "reject"
    ELSE LET c == conclusion[1]
         IN  IF /\ IsOp(c, "=", 2)
                /\ IsOp(c.args[1], "=", 2)
                /\ IsOp(c.args[2], "and", 2)
                /\ IsOp(c.args[2].args[1], "<=", 2)
                /\ IsOp(c.args[2].args[2], "<=", 2)
             THEN LET t_1 == c.args[1].args[1]
                      u_1 == c.args[1].args[2]
                      t_2 == c.args[2].args[1].args[1]
                      u_2 == c.args[2].args[1].args[2]
                      u_3 == c.args[2].args[2].args[1]
                      t_3 == c.args[2].args[2].args[2]
                  IN  to_option(t_1 = t_2 /\ t_2 = t_3 /\ u_1 = u_2 /\ u_2 = u_3)
             ELSE "reject"

\* la_disequality with the sides of the last comparison read in the other order.
la_disequality_swapped(conclusion) ==
    IF Len(conclusion) # 1 THEN "reject"
    ELSE LET c == conclusion[1]
         IN  IF /\ IsOp(c, "or", 3)
                /\ IsOp(c.args[1], "=", 2)
                /\ IsOp(c.args[2], "not", 1)
                /\ IsOp(c.args[2].args[1], "<=", 2)
                /\ IsOp(c.args[3], "not", 1)
                /\ IsOp(c.args[3].args[1], "<=", 2)
             THEN LET t1_1 == c.args[1].args[1]
                      t2_1 == c.args[1].args[2]
                      t1_2 == c.args[2].args[1].args[1]
                      t2_2 == c.args[2].args[1].args[2]
                      t1_3 == c.args[3].args[1].args[1]
                      t2_3 == c.args[3].args[1].args[2]
                  IN  to_option(t1_1 = t1_2 /\ t1_2 = t1_3 /\ t2_1 = t2_2 /\ t2_2 = t2_3)
             ELSE "reject"

la_disequality(conclusion) ==
    IF Len(conclusion) # 1 THEN "reject"
    ELSE LET c == conclusion[1]
         IN  IF /\ IsOp(c, "or", 3)
                /\ IsOp(c.args[1], "=", 2)
                /\ IsOp(c.args[2], "not", 1)
                /\ IsOp(c.args[2].args[1], "<=", 2)
                /\ IsOp(c.args[3], "not", 1)
                /\ IsOp(c.args[3].args[1], "<=", 2)
             THEN LET t1_1 == c.args[1].args[1]
                      t2_1 == c.args[1].args[2]
                      t1_2 == c.args[2].args[1].args[1]
                      t2_2 == c.args[2].args[1].args[2]
                      t2_3 == c.args[3].args[1].args[1]
                      t1_3 == c.args[3].args[1].args[2]
                  IN  to_option(t1_1 = t1_2 /\ t1_2 = t1_3 /\ t2_1 = t2_2 /\ t2_2 = t2_3)
             ELSE "reject"

(***************************************************************************)
(* The proof steps the checkers are run on.                                *)
(***************************************************************************)
\* The longest clause built from CoreLiterals.
MaxLits == 2

n == Var("n", "Int")
m == Var("m", "Int")
a == Var("a", "Real")
p == Var("p", "Bool")

Num(k) == IntLit(k)
Minus(t) == Op("-", << t >>)
Not(t) == Op("not", << t >>)
Const(sort, k) == IF sort = "Int" THEN IntLit(k) ELSE RealLit(FromInteger(k))

\* ProofArg::Term and ProofArg::Assign
ArgTerm(t) == [tag |-> "Term", name |-> "", term |-> t]
ArgAssign(name, t) == [tag |-> "Assign", name |-> name, term |-> t]

Comparisons == {"<", ">", "<=", ">="}

\* Sides of a comparison: sums, differences, negations, products, constants.
Sides ==
    { n, Num(0), Num(1), Minus(Num(1)), Minus(n), Minus(Minus(n)),
      Op("+", << n, Num(1) >>), Op("+", << n, m >>), Op("+", << n, n >>),
      Op("+", << n, Minus(n) >>), Op("+", << m, Minus(Op("+", << n, Num(1) >>)) >>),
      Op("-", << n, Num(1) >>), Op("-", << n, n >>), Op("-", << n, Num(1), m >>),
      Op("-", << n, Op("-", << m, Num(1) >>) >>),
      Op("-", << Op("+", << n, m >>), Minus(Op("-", << n, Num(2) >>)), m >>),
      Op("*", << Num(2), n >>), Op("*", << n, Num(2) >>), Op("*", << Num(0), n >>),
      Op("*", << Minus(Num(2)), n >>), Op("*", << Num(2), Num(3) >>),
      Op("*", << n, m >>), Op("*", << Num(2), n, m >>),
      Op("+", << Op("*", << Num(2), n >>), Op("*", << Minus(Num(2)), n >>) >>),
      Op("+", << Op("*", << Num(0), n >>), n >>),
      Op("-", << Op("*", << Num(3), m >>), Op("*", << Num(2), n >>) >>),
      Op("/", << Num(1), Num(2) >>), Op("/", << Num(1), Num(0) >>),
      Op("div", << Num(3), Num(2) >>), Op("div", << Num(0), Num(0) >>),
      Op("/", << Minus(Num(1)), Op("/", << Num(1), Num(2) >>) >>),
      Op("/", << n, Num(2) >>), Op("/", << Num(1), n >>),
      Op("*", << Op("/", << Num(1), Num(2) >>), n >>),
      Op("*", << n, Op("/", << Num(1), Num(0) >>) >>),
      Op("+", << n, Op("/", << Num(1), Num(0) >>) >>) }

\* The literals la_generic is meant for: a comparison or a negated comparison.
ArithLiterals ==
    { Op(op, << s, t >>) : op \in Comparisons \cup {"="}, s \in Sides, t \in {Num(0), n} }
    \cup { Not(Op(op, << s, t >>)) :
               op \in Comparisons \cup {"="}, s \in Sides, t \in {Num(0), n} }

\* Literals of other shapes.
OtherLiterals ==
    { p, Not(p), Not(Not(Op("<", << n, Num(0) >>))),
      Op("ite", << Op("=", << n, m >>), Not(p), p >>),
      Op("and", << Op("<", << n, Num(0) >>), Op("<", << Num(0), n >>) >>),
      Not(Op("distinct", << n, Num(0) >>)),
      Op("<", << n, m, Num(0) >>), Not(Op(">=", << n, m, Num(0) >>)),
      Not(Op("=", << n, m, Num(0) >>)) }

\* The shape of la_rw_eq, with every choice of the six occurrences.
RwLiteral(t1, u1, t2, u2, u3, t3) ==
    Op("=", << Op("=", << t1, u1 >>),
               Op("and", << Op("<=", << t2, u2 >>), Op("<=", << u3, t3 >>) >>) >>)

RwLiterals ==
    { RwLiteral(t1, u1, t2, u2, u3, t3) :
          t1 \in {n, m}, u1 \in {n, m}, t2 \in {n, m},
          u2 \in {n, m}, u3 \in {n, m}, t3 \in {n, m} }
    \cup { Op("=", << Op("=", << n, m >>),
                      Op("or", << Op("<=", << n, m >>), Op("<=", << m, n >>) >>) >>),
           Op("=", << Op("=", << n, m >>),
                      Op("and", << Op("<", << n, m >>), Op("<=", << m, n >>) >>) >>),
           Op("=", << Op("=", << n, m >>),
                      Op("and", << Op("<=", << n, m >>), Op(">=", << m, n >>) >>) >>),
           Op("=", << Op("=", << n, m >>),
                      Op("and", << Op("<=", << n, m >>), Op("<=", << m, n >>),
                                   Op("<=", << m, n >>) >>) >>),
           Op("=", << Op("and", << Op("<=", << n, m >>), Op("<=", << m, n >>) >>),
                      Op("=", << n, m >>) >>),
           Op("=", << Op("=", << n, m >>),
                      Op("and", << Op("<=", << n, m >>), Op("<=", << m, n >>) >>),
                      Op("=", << n, m >>) >>),
           Not(RwLiteral(n, m, n, m, m, n)) }

\* The shape of la_disequality, with every choice of the six occurrences.
DiseqLiteral(t1a, t2a, t1b, t2b, t2c, t1c) ==
    Op("or", << Op("=", << t1a, t2a >>), Not(Op("<=", << t1b, t2b >>)),
                Not(Op("<=", << t2c, t1c >>)) >>)

DiseqLiterals ==
    { DiseqLiteral(t1a, t2a, t1b, t2b, t2c, t1c) :
          t1a \in {n, m}, t2a \in {n, m}, t1b \in {n, m},
          t2b \in {n, m}, t2c \in {n, m}, t1c \in {n, m} }
    \cup { Op("or", << Op("=", << n, m >>), Op("<=", << n, m >>), Not(Op("<=", << m, n >>)) >>),
           Op("or", << Op("=", << n, m >>), Not(Op("<", << n, m >>)), Not(Op("<=", << m, n >>)) >>),
           Op("or", << Op("<=", << n, m >>), Not(Op("<=", << n, m >>)), Not(Op("<=", << m, n >>)) >>),
           Op("or", << Op("=", << n, m >>), Not(Op("<=", << n, m >>)) >>),
           Op("or", << Op("=", << n, m >>), Not(Op("<=", << n, m >>)),
                       Not(Op("<=", << m, n >>)), Not(Op("<=", << m, n >>)) >>),
           Op("and", << Op("=", << n, m >>), Not(Op("<=", << n, m >>)),
                        Not(Op("<=", << m, n >>)) >>) }

Literals == ArithLiterals \cup OtherLiterals \cup RwLiterals \cup DiseqLiterals

\* The arguments of a step: rational constants, and what is none.
Args ==
    { ArgTerm(Num(1)), ArgTerm(Num(0)), ArgTerm(Minus(Num(1))),
      ArgTerm(Op("/", << Num(1), Num(2) >>)), ArgTerm(Op("/", << Num(1), Num(0) >>)),
      ArgTerm(Op("div", << Minus(Num(3)), Num(2) >>)),
      ArgTerm(n), ArgAssign("x", Num(1)) }

\* Literals and arguments of the clauses of several literals.
CoreLiterals ==
    { Op(op, << v, Const(v.sort, k) >>) : op \in Comparisons, v \in {n, a}, k \in {0, 1} }
    \cup { Not(Op("=", << n, Num(k) >>)) : k \in {0, 1} }

CoreArgs == { ArgTerm(Num(1)), ArgTerm(Op("/", << Num(1), Num(2) >>)) }

SeqsUpTo(S, max) == UNION { [1..len -> S] : len \in 0..max }

\* The steps: [rule, conclusion, args].
Steps ==
    { [rule |-> "la_generic", conclusion |-> << phi >>, args |-> << arg >>] :
          phi \in Literals, arg \in Args }
    \cup { [rule |-> "la_generic", conclusion |-> cl, args |-> ar] :
               cl \in SeqsUpTo(CoreLiterals, MaxLits), ar \in SeqsUpTo(CoreArgs, MaxLits) }
    \cup { [rule |-> "la_generic", conclusion |-> << phi, psi >>, args |-> << arg1, arg2 >>] :
               phi \in {Op("<", << n, Num(1) >>), Not(p)},
               psi \in {Op(">", << n, Num(0) >>), Op("<=", << Num(0), Num(0) >>)},
               arg1 \in Args, arg2 \in Args }
    \cup { [rule |-> r, conclusion |-> << phi >>, args |-> << >>] :
               r \in {"la_rw_eq", "la_disequality"}, phi \in Literals }
    \cup { [rule |-> r, conclusion |-> cl, args |-> << >>] :
               r \in {"la_rw_eq", "la_disequality"},
               cl \in SeqsUpTo({RwLiteral(n, m, n, m, m, n),
                                DiseqLiteral(n, m, n, m, m, n)}, MaxLits) }

(***************************************************************************)
(* SymbolTable<K, V> (utils): a stack of maps, the innermost scope last.   *)
(* A key is looked up from the innermost scope outwards, so that an inner  *)
(* binding shadows an outer one.                                           *)
(***************************************************************************)
NoBindings == [key \in {} |-> ""]

\* SymbolTable::default: one scope, the global one.
SymbolTable_new == << NoBindings >>

push_scope(table) == Append(table, NoBindings)

pop_scope(table) ==
    IF Len(table) > 1 THEN SubSeq(table, 1, Len(table) - 1) ELSE table

\* insert binds the key in the innermost scope.
SymbolTable_insert(table, key, value) ==
    [table EXCEPT ![Len(table)] =
        [k \in DOMAIN table[Len(table)] \cup {key} |->
            IF k = key THEN value ELSE table[Len(table)][k]]]

\* The scopes that bind the key, as positions in the stack.
Binding(table, key) == {d \in 1..Len(table) : key \in DOMAIN table[d]}

Innermost(S) == CHOOSE d \in S : \A e \in S : e <= d

get(table, key) ==
    IF Binding(table, key) = {}
    THEN None("")
    ELSE Some(table[Innermost(Binding(table, key))][key])

\* get_with_depth: the depth counts scopes upward from the innermost one.
get_with_depth(table, key) ==
    IF Binding(table, key) = {}
    THEN None(<< 0, 0 >>)
    ELSE LET d == Innermost(Binding(table, key))
         IN  Some(<< Len(table) - d, table[d][key] >>)

(***************************************************************************)
(* The parser (parser/mod.rs).  ParserState and the fields of Parser:      *)
(*   sorts_symbol_table   identifier -> sort, scoped                       *)
(*   function_defs        name -> FunctionDef, global                      *)
(*   sort_declarations    name -> arity                                    *)
(*   step_indices         step index -> position in its frame, scoped      *)
(*   interpret_integers_as_reals                                           *)
(* the locals of parse_problem and parse_proof:                            *)
(*   premises             the set parse_problem collects                   *)
(*   commands_stack, end_step_stack, subproof_args_stack                   *)
(* and the position of parse_instance:                                     *)
(*   phase      problem (in parse_problem), proof (in parse_proof),        *)
(*              done (parse_instance has returned), idle (no parser runs)  *)
(*   position   the number of commands read from the token stream          *)
(*   command    the command read by the last iteration                     *)
(*   result     running, or what parse_instance returned: Ok, or Err with  *)
(*              the ParserError and the index it carries                   *)
(*   anchored   for each open anchor, the bindings visible when it was     *)
(*              read (a history of the run, not a field of the program)    *)
(***************************************************************************)
VARIABLES sorts_symbol_table, function_defs, sort_declarations, step_indices,
          interpret_integers_as_reals, premises, commands_stack,
          end_step_stack, subproof_args_stack, phase, position, command,
          result, anchored, error_position

parser_vars ==
    << sorts_symbol_table, function_defs, sort_declarations, step_indices,
       interpret_integers_as_reals, premises, commands_stack, end_step_stack,
       subproof_args_stack, phase, position, command, result, anchored,
       error_position >>

NoCommand == [kind |-> "none"]
Running == [k |-> "running", err |-> "", index |-> ""]
Ok(value) == [k |-> "Ok", err |-> "", index |-> "", value |-> value]
Err(e, index) == [k |-> "Err", err |-> e, index |-> index]

\* The Position an Error::Parser carries, as the token it is the position
\* of: in the nth command read, the keyword after the opening parenthesis,
\* the index symbol, the nth premise symbol, the head of an application,
\* another token inside the command, or the end of the input.
TokenAt(nth_command, token, nth) == [command |-> nth_command, token |-> token, nth |-> nth]
NoPosition == TokenAt(0, "none", 0)

\* Parser::new: true and false are bound to Bool in the global scope.
Parser_new ==
    /\ sorts_symbol_table =
           SymbolTable_insert(SymbolTable_insert(SymbolTable_new, "true", "Bool"),
                              "false", "Bool")
    /\ function_defs = [f \in {} |-> NoCommand]
    /\ sort_declarations = [s \in {} |-> 0]
    /\ step_indices = SymbolTable_new
    /\ interpret_integers_as_reals = FALSE
    /\ premises = {}
    /\ commands_stack = << << >> >>
    /\ end_step_stack = << >>
    /\ subproof_args_stack = << >>
    /\ position = 0
    /\ command = NoCommand
    /\ result = Running
    /\ error_position = NoPosition
    /\ anchored = << >>

(***************************************************************************)
(* Metrics (benchmarking.rs).  A Duration is its number of nanoseconds.    *)
(* count, a usize, is written in two digits of base 2^16, the integers of  *)
(* TLC being 32 bits wide: count = high * 2^16 + low.  The standard        *)
(* deviation, a floating point computation, is left out.                   *)
(*   metrics   the Metrics                                                 *)
(*   history   the calls of add so far: the samples of the calls the       *)
(*             model made, after `earlier` calls with Duration::ZERO       *)
(***************************************************************************)
VARIABLES metrics, history

MaxSamples == 3
MaxDuration == 2
Keys == {"k1", "k2"}
Durations == 0..MaxDuration

Limb == 2^16
Usize(high, low) == [high |-> high, low |-> low]

\* count += 1
Successor(c) ==
    IF c.low + 1 = Limb THEN Usize(c.high + 1, 0) ELSE Usize(c.high, c.low + 1)

\* count as u32: the low 32 bits
AsU32(c) == Usize(c.high % Limb, c.low)

\* Duration / u32, for a Duration below 2^16 ns; the division by zero panics
DurationDiv(total, c) ==
    IF c = Usize(0, 0) THEN None(0)
    ELSE IF c.high > 0 THEN Some(0)
    ELSE Some(total \div c.low)

\* Metrics::new
Metrics_new == [total |-> 0, count |-> Usize(0, 0), mean |-> 0, max_min |-> None(<< >>)]

\* Metrics::max and Metrics::min: max_min unwrapped
Metrics_max(self) == IF self.max_min.k = "Some" THEN Some(self.max_min.v[1]) ELSE Panic(<< >>)
Metrics_min(self) == IF self.max_min.k = "Some" THEN Some(self.max_min.v[2]) ELSE Panic(<< >>)

\* Metrics::add: the Metrics it leaves, when it returns and when it panics
Metrics_add_last_tie(self, key, value) ==
    LET total == self.total + value
        count == Successor(self.count)
        mean == DurationDiv(total, AsU32(count))
        max_min ==
            IF self.max_min.k = "Some"
            THEN LET max == self.max_min.v[1]
                     min == self.max_min.v[2]
                 IN  Some(<< IF value >= max[2] THEN << key, value >> ELSE max,
                             IF value <= min[2] THEN << key, value >> ELSE min >>)
            ELSE Some(<< << key, value >>, << key, value >> >>)
    IN  IF mean.k = "None"
        THEN Panic([self EXCEPT !.total = total, !.count = count])
        ELSE Some([total |-> total, count |-> count, mean |-> mean.v,
                   max_min |-> max_min])
Metrics_add(self, key, value) ==
    LET total == self.total + value
        count == Successor(self.count)
        mean == DurationDiv(total, AsU32(count))
        max_min ==
            IF self.max_min.k = "Some"
            THEN LET max == self.max_min.v[1]
                     min == self.max_min.v[2]
                 IN  Some(<< IF value > max[2] THEN << key, value >> ELSE max,
                             IF value < min[2] THEN << key, value >> ELSE min >>)
            ELSE Some(<< << key, value >>, << key, value >> >>)
    IN  IF mean.k = "None"
        THEN Panic([self EXCEPT !.total = total, !.count = count])
        ELSE Some([total |-> total, count |-> count, mean |-> mean.v,
                   max_min |-> max_min])

NoHistory == [earlier |-> Usize(0, 0), samples |-> << >>]

\* No Metrics is in use.
MetricsIdle == metrics = Metrics_new /\ history = NoHistory

(***************************************************************************)
(* The state machine.                                                      *)
(*   rule, conclusion, args   the step under check                         *)
(*   pc        ready, map, fold, decide (la_generic), done                 *)
(*   i         the position of la_generic's iterator, from 1               *)
(*   item      what the map closure returned for literal i                 *)
(*   acc_op, acc   the accumulator of try_fold                             *)
(*   verdict   none, accept (Some(())), reject (None), abort (a panic)     *)
(***************************************************************************)
VARIABLES rule, conclusion, args, pc, i, item, acc_op, acc, verdict

vars == << rule, conclusion, args, pc, i, item, acc_op, acc, verdict, metrics, history >>

Init ==
    /\ \E step \in Steps :
           /\ rule = step.rule
           /\ conclusion = step.conclusion
           /\ args = step.args
    /\ pc = "ready"
    /\ i = 1
    /\ item = NoItem
    /\ acc_op = "="
    /\ acc = LinearComb_new
    /\ verdict = "none"
    /\ Parser_new
    /\ phase = "idle"
    /\ MetricsIdle

\* la_rw_eq, the whole rule
Check_la_rw_eq ==
    /\ pc = "ready"
    /\ rule = "la_rw_eq"
    /\ verdict' = la_rw_eq(conclusion)
    /\ pc' = "done"
    /\ UNCHANGED << rule, conclusion, args, i, item, acc_op, acc >>
    /\ UNCHANGED << parser_vars, metrics, history >>

\* la_disequality, the whole rule
Check_la_disequality ==
    /\ pc = "ready"
    /\ rule = "la_disequality"
    /\ verdict' = la_disequality(conclusion)
    /\ pc' = "done"
    /\ UNCHANGED << rule, conclusion, args, i, item, acc_op, acc >>
    /\ UNCHANGED << parser_vars, metrics, history >>

\* la_generic, line 221: rassert!(conclusion.len() == args.len())
la_generic_begin ==
    /\ pc = "ready"
    /\ rule = "la_generic"
    /\ IF Len(conclusion) # Len(args)
       THEN verdict' = "reject" /\ pc' = "done"
       ELSE verdict' = verdict /\ pc' = IF Len(conclusion) = 0 THEN "decide" ELSE "map"
    /\ UNCHANGED << rule, conclusion, args, i, item, acc_op, acc >>
    /\ UNCHANGED << parser_vars, metrics, history >>

\* la_generic, lines 226-265: the map closure on the next pair of the zip
la_generic_map ==
    /\ pc = "map"
    /\ item' = MapLiteral(conclusion[i], args[i])
    /\ pc' = "fold"
    /\ UNCHANGED << rule, conclusion, args, i, acc_op, acc, verdict >>
    /\ UNCHANGED << parser_vars, metrics, history >>

\* la_generic, lines 268-278: the try_fold closure on that item
la_generic_fold ==
    /\ pc = "fold"
    /\ IF item.k = "Some"
       THEN /\ acc' = add(acc, item.diseq)
            /\ acc_op' = FoldOperator(acc_op, item.op)
            /\ i' = i + 1
            /\ pc' = IF i = Len(conclusion) THEN "decide" ELSE "map"
            /\ verdict' = verdict
       ELSE /\ verdict' = IF item.k = "Panic" THEN "abort" ELSE "reject"
            /\ pc' = "done"
            /\ UNCHANGED << acc, acc_op, i >>
    /\ UNCHANGED << rule, conclusion, args, item >>
    /\ UNCHANGED << parser_vars, metrics, history >>

\* la_generic, lines 280-299: the decision on the folded disequality
la_generic_decide ==
    /\ pc = "decide"
    /\ verdict' = Decide(acc_op, acc)
    /\ pc' = "done"
    /\ UNCHANGED << rule, conclusion, args, i, item, acc_op, acc >>
    /\ UNCHANGED << parser_vars, metrics, history >>

Next ==
    \/ Check_la_rw_eq
    \/ Check_la_disequality
    \/ la_generic_begin
    \/ la_generic_map
    \/ la_generic_fold
    \/ la_generic_decide

Spec == Init /\ [][Next]_vars

(***************************************************************************)
(* The meaning of a clause: the value of a term and the truth of a         *)
(* literal under an assignment env of rationals to the variables.          *)
(***************************************************************************)
RECURSIVE Eval(_, _)
RECURSIVE EvalSum(_, _, _)
RECURSIVE EvalProduct(_, _, _)
EvalSum(ts, from, env) ==
    IF from > Len(ts) THEN Zero ELSE RAdd(Eval(ts[from], env), EvalSum(ts, from + 1, env))
EvalProduct(ts, from, env) ==
    IF from > Len(ts) THEN One ELSE RMul(Eval(ts[from], env), EvalProduct(ts, from + 1, env))
\* x / y, and 0 where y is 0 (no accepted clause divides by zero)
EvalQuotient(x, y) == IF RIsZero(y) THEN Zero ELSE Ratio(x[1] * y[2], x[2] * y[1])

Eval(t, env) ==
    CASE t.tag = "var" -> env[t.name]
      [] t.tag \in {"int", "real"} -> t.val
      [] IsOpAny(t, "+") -> EvalSum(t.args, 1, env)
      [] IsOp(t, "-", 1) -> RNeg(Eval(t.args[1], env))
      [] IsOpAny(t, "-") /\ Len(t.args) # 1 ->
            RAdd(Eval(t.args[1], env), RNeg(EvalSum(t.args, 2, env)))
      [] IsOpAny(t, "*") -> EvalProduct(t.args, 1, env)
      [] IsOp(t, "/", 2) -> EvalQuotient(Eval(t.args[1], env), Eval(t.args[2], env))
      [] IsOp(t, "div", 2) ->
            RFloor(EvalQuotient(Eval(t.args[1], env), Eval(t.args[2], env)))
      [] OTHER -> Zero

Compare(op, x, y) ==
    CASE op = "<" -> RLess(x, y)
      [] op = ">" -> RLess(y, x)
      [] op = "<=" -> ~RLess(y, x)
      [] op = ">=" -> ~RLess(x, y)
      [] OTHER -> x = y

\* A literal of the kind la_generic is meant for
IsArithLiteral(phi) ==
    \/ /\ phi.tag = "op" /\ phi.name \in Comparisons \cup {"="} /\ Len(phi.args) = 2
    \/ /\ IsOp(phi, "not", 1)
       /\ phi.args[1].tag = "op"
       /\ phi.args[1].name \in Comparisons \cup {"="}
       /\ Len(phi.args[1].args) = 2

Holds(phi, env) ==
    IF IsOp(phi, "not", 1)
    THEN ~Compare(phi.args[1].name, Eval(phi.args[1].args[1], env),
                  Eval(phi.args[1].args[2], env))
    ELSE Compare(phi.name, Eval(phi.args[1], env), Eval(phi.args[2], env))

\* The assignments: integers for the Int variables, halves for the Real one.
MaxValue == 2
IntValues == { FromInteger(k) : k \in (-MaxValue)..MaxValue }
RealValues == { Ratio(k, 2) : k \in (-2 * MaxValue)..(2 * MaxValue) }
Assignments ==
    { [name \in {"n", "m", "a"} |-> IF name = "n" THEN vn ELSE IF name = "m" THEN vm ELSE va] :
          vn \in IntValues, vm \in IntValues, va \in RealValues }

Tautology(clause) ==
    \A env \in Assignments : \E j \in 1..Len(clause) : Holds(clause[j], env)

Done(r) == pc = "done" /\ rule = r

(***************************************************************************)
(* C1.  la_generic is sound: when it accepts a clause of (possibly         *)
(* negated) comparisons of linear terms, every assignment of integers to   *)
(* the Int variables and rationals to the Real variables satisfies some    *)
(* literal of the clause.                                                  *)
(***************************************************************************)
C1_la_generic_sound ==
    (/\ Done("la_generic")
     /\ verdict = "accept"
     /\ \A j \in 1..Len(conclusion) : IsArithLiteral(conclusion[j]))
        => Tautology(conclusion)

(***************************************************************************)
(* C2.  la_generic accepts exactly when the items of all literals were     *)
(* summed, no variable is left on the left side of the sum, and the        *)
(* disequality 0 op right is false; 0 op right is true exactly when        *)
(* 0 < right and op is < or <=, or 0 = right and op is <=, >= or =, or     *)
(* 0 > right and op is > or >=.  A sum that keeps a variable with a        *)
(* non-zero coefficient is rejected.  (The left side is the coefficient    *)
(* map: an entry counts as a variable that is left.)                       *)
(***************************************************************************)
C2_IsTrue(op, right) ==
    \/ RLess(Zero, right) /\ op \in {"<", "<="}
    \/ right = Zero /\ op \in {"<=", ">=", "="}
    \/ RLess(right, Zero) /\ op \in {">", ">="}

RECURSIVE C2_Sum(_)
C2_Sum(j) ==
    IF j = 0 THEN LinearComb_new
    ELSE add(C2_Sum(j - 1), MapLiteral(conclusion[j], args[j]).diseq)

C2_Folded == Len(conclusion) = Len(args) /\ i = Len(conclusion) + 1

NoZeroCoefficient(lc) == \A t \in DOMAIN lc.coef : lc.coef[t] # Zero

C3_from_term_no_zero ==
    (rule = "la_generic" /\ pc = "fold") =>
        NoZeroCoefficient(item.s1) /\ NoZeroCoefficient(item.s2)

(***************************************************************************)
(* C4.  No linear combination of the la_generic pipeline (after s1 - s2,   *)
(* after the orientation, after the scaling by a, after each addition of   *)
(* the fold) maps a term to a zero coefficient, where the combinations     *)
(* of the two sides hold none; and a variable scaled by a = 0 does not     *)
(* make the check that the left side is empty fail.                        *)
(***************************************************************************)
C4_no_zero_in_pipeline ==
    (rule = "la_generic" /\ NoZeroCoefficient(item.s1) /\ NoZeroCoefficient(item.s2)) =>
        /\ NoZeroCoefficient(item.moved)
        /\ NoZeroCoefficient(item.flip)
        /\ NoZeroCoefficient(item.diseq)
        /\ NoZeroCoefficient(acc)
        /\ (pc = "decide" /\ Len(conclusion) = 1 /\ item.a = Zero) => DOMAIN acc.coef = {}

(***************************************************************************)
(* C5.  la_generic rejects when the number of arguments differs from the   *)
(* number of literals, and the empty clause with no arguments; it never    *)
(* accepts a step with an assignment argument or an argument that is no    *)
(* rational constant, and rejects on reaching such an argument.            *)
(***************************************************************************)
C5_NotRational(arg) ==
    arg.tag = "Assign" \/ simple_operation_to_rational(arg.term).k # "Some"

C5_bad_arguments_rejected ==
    Done("la_generic") =>
        /\ Len(conclusion) # Len(args) => verdict = "reject"
        /\ (conclusion = << >> /\ args = << >>) => verdict = "reject"
        /\ (\E j \in 1..Len(args) : C5_NotRational(args[j])) => verdict # "accept"
        /\ (item.k = "None" /\ item.at \in {"assign", "arg"}) => verdict = "reject"

\* An assignment argument reached after a literal that was folded.
C5_witness ==
    /\ Done("la_generic")
    /\ i = 2
    /\ item.at = "assign"
    /\ verdict = "reject"

(***************************************************************************)
(* C6.  negate_disequality gives (op, args) for (not (op args)) with op    *)
(* one of <, >, <=, >=, =; the negated operator (< to >=, >= to <,         *)
(* > to <=, <= to >) and the same arguments for (op args) with op one of   *)
(* <, >, <=, >=; and fails on every other literal, and then la_generic     *)
(* rejects.  la_generic also rejects a comparison that does not have       *)
(* exactly two arguments.                                                  *)
(***************************************************************************)
C6_Negated(op) ==
    CASE op = "<" -> ">=" [] op = ">=" -> "<" [] op = ">" -> "<=" [] op = "<=" -> ">"

C6_Expected(phi) ==
    IF /\ phi.tag = "op" /\ phi.name = "not" /\ Len(phi.args) = 1
       /\ phi.args[1].tag = "op"
       /\ phi.args[1].name \in {"<", ">", "<=", ">=", "="}
    THEN Some([op |-> phi.args[1].name, args |-> phi.args[1].args])
    ELSE IF phi.tag = "op" /\ phi.name \in {"<", ">", "<=", ">="}
    THEN Some([op |-> C6_Negated(phi.name), args |-> phi.args])
    ELSE None(NoArgs)

\* The map closure got as far as negate_disequality on literal i.
C6_Negating ==
    /\ rule = "la_generic"
    /\ pc \in {"fold", "done"}
    /\ i <= Len(conclusion)
    /\ item.at \notin {"", "assign", "arg"}

C6_negate_disequality ==
    C6_Negating =>
        LET expected == C6_Expected(conclusion[i])
        IN  /\ expected.k = "Some" => (item.at # "negate" /\ item.neg = expected.v)
            /\ expected.k = "None" => (item.at = "negate" /\ item.k = "None")
            /\ (item.at = "negate" /\ pc = "done") => verdict = "reject"
            /\ (item.at # "negate" /\ Len(item.neg.args) # 2)
                  => /\ item.at = "args"
                     /\ item.k = "None"
                     /\ pc = "done" => verdict = "reject"

\* A positive equality, on which negate_disequality fails.
C6_witness ==
    /\ C6_Negating
    /\ pc = "done"
    /\ conclusion[i].name = "="
    /\ item.at = "negate"
    /\ verdict = "reject"

(***************************************************************************)
(* C7.  la_rw_eq accepts exactly the clauses of one literal                *)
(* (= (= t u) (and (<= t u) (<= u t))) for some terms t and u.             *)
(***************************************************************************)
\* The terms two levels below the root of c: where t and u first occur.
SecondLevel(c) ==
    UNION { { c.args[j].args[k] : k \in 1..Len(c.args[j].args) } : j \in 1..Len(c.args) }

C7_la_rw_eq ==
    Done("la_rw_eq") =>
        (verdict = "accept" <=>
            /\ Len(conclusion) = 1
            /\ \E t \in SecondLevel(conclusion[1]), u \in SecondLevel(conclusion[1]) :
                   conclusion[1] = RwLiteral(t, u, t, u, u, t))

\* The rule accepts the shape with t = n and u = m.
C7_witness ==
    /\ Done("la_rw_eq")
    /\ conclusion = << RwLiteral(n, m, n, m, m, n) >>
    /\ verdict = "accept"

(***************************************************************************)
(* C8.  la_disequality accepts exactly the clauses of one literal          *)
(* (or (= t1 t2) (not (<= t1 t2)) (not (<= t2 t1))) for some terms t1      *)
(* and t2.                                                                 *)
(***************************************************************************)
C8_la_disequality ==
    Done("la_disequality") =>
        (verdict = "accept" <=>
            /\ Len(conclusion) = 1
            /\ \E t1 \in SecondLevel(conclusion[1]), t2 \in SecondLevel(conclusion[1]) :
                   conclusion[1] = DiseqLiteral(t1, t2, t1, t2, t2, t1))

\* The rule accepts the shape with t1 = n and t2 = m.
C8_witness ==
    /\ Done("la_disequality")
    /\ conclusion = << DiseqLiteral(n, m, n, m, m, n) >>
    /\ verdict = "accept"

(***************************************************************************)
(* C9.  flatten_sum preserves the value of its argument: whatever values   *)
(* the leaves have, the sum over the flattened list of +value(leaf) for a  *)
(* positive and -value(leaf) for a negative polarity is the value of the   *)
(* term; and for (- a b c ...) the list is that of a, followed by those    *)
(* of b, c, ... with the polarities flipped.                               *)
(***************************************************************************)
IsSum(t) == t.tag = "op" /\ t.name \in {"+", "-"}

RECURSIVE Leaves(_)
Leaves(t) ==
    IF IsSum(t) THEN UNION { Leaves(t.args[j]) : j \in 1..Len(t.args) } ELSE {t}

RECURSIVE ValueOf(_, _)
RECURSIVE ValueOfSum(_, _, _)
ValueOfSum(ts, from, value) ==
    IF from > Len(ts) THEN 0 ELSE ValueOf(ts[from], value) + ValueOfSum(ts, from + 1, value)
\* The value of a term of +, unary - and n-ary - over leaves of the given values.
ValueOf(t, value) ==
    IF ~IsSum(t) THEN value[t]
    ELSE IF t.name = "+" THEN ValueOfSum(t.args, 1, value)
    ELSE IF Len(t.args) = 1 THEN -ValueOf(t.args[1], value)
    ELSE ValueOf(t.args[1], value) - ValueOfSum(t.args, 2, value)

RECURSIVE ValueOfList(_, _, _)
ValueOfList(list, from, value) ==
    IF from > Len(list) THEN 0
    ELSE (IF list[from].polarity THEN value[list[from].term] ELSE -value[list[from].term])
         + ValueOfList(list, from + 1, value)

RECURSIVE C9_Rest(_, _)
\* The lists of the arguments from the given one on, polarities flipped.
C9_Rest(ts, from) ==
    IF from > Len(ts) THEN << >>
    ELSE LET list == flatten_sum(ts[from])
         IN  [j \in 1..Len(list) |-> [term |-> list[j].term, polarity |-> ~list[j].polarity]]
             \o C9_Rest(ts, from + 1)

C9_Preserved(t) ==
    /\ \A value \in [Leaves(t) -> (-MaxValue)..MaxValue] :
           ValueOfList(flatten_sum(t), 1, value) = ValueOf(t, value)
    /\ (IsOpAny(t, "-") /\ Len(t.args) > 1)
          => flatten_sum(t) = flatten_sum(t.args[1]) \o C9_Rest(t.args, 2)

\* The map closure linearized the sides of literal i.
C9_Flattened ==
    /\ rule = "la_generic"
    /\ pc = "fold"
    /\ item.at \in {"s1", "s2", "end"}

C9_flatten_sum_preserves_value ==
    C9_Flattened => C9_Preserved(item.neg.args[1]) /\ C9_Preserved(item.neg.args[2])

\* A difference of three arguments, of which the second is itself negated.
C9_witness ==
    /\ C9_Flattened
    /\ item.at = "end"
    /\ IsOp(item.neg.args[1], "-", 3)
    /\ IsOp(item.neg.args[1].args[2], "-", 1)

(***************************************************************************)
(* C10.  simple_operation_to_rational returns a rational or None and       *)
(* fails in no other way, so la_generic always ends with accept or         *)
(* reject, also for (/ n d) and (div n d) with a denominator of 0.         *)
(***************************************************************************)
C10_no_abort ==
    rule = "la_generic" => (item.k \in {"Some", "None"} /\ verdict # "abort")

(***************************************************************************)
(* The parser's input.  The lexer is an opaque token source; the model     *)
(* reads the token stream as the expressions it spells:                    *)
(*   numeral k, decimal r, symbol s                                        *)
(*   (head t1 ... tk)                     head a symbol                    *)
(*   (forall|exists ((x s) ...) body)                                      *)
(*   (choice ((x s)) body)                                                 *)
(*   (let ((x v) ...) body)                                                *)
(*   (! t :attribute name)                                                 *)
(*   (word ...)                           any other reserved word          *)
(* Every sort written in the input is a symbol: the problems drawn declare *)
(* no parametric sorts and no functions with parameters, so that a sort is *)
(* one of Bool, Int, Real, String or a declared sort of arity 0.           *)
(***************************************************************************)
SNumeral(k) == [form |-> "numeral", num |-> k]
SDecimal(r) == [form |-> "decimal", ratio |-> r]
SSymbol(s) == [form |-> "symbol", name |-> s]
SApp(head, ts) == [form |-> "app", head |-> head, terms |-> ts]
SQuant(q, bindings, body) ==
    [form |-> "quant", quantifier |-> q, bindings |-> bindings, body |-> body]
SChoice(x, sort, body) == [form |-> "choice", name |-> x, sort |-> sort, body |-> body]
SLet(bindings, body) == [form |-> "let", bindings |-> bindings, body |-> body]
SAnnotated(inner, attribute, name) ==
    [form |-> "!", inner |-> inner, attribute |-> attribute, name |-> name]
SReserved(word) == [form |-> "reserved", word |-> word]
\* (x s) and (x v)
SortedVar(x, sort) == [name |-> x, sort |-> sort]
LetBinding(x, value) == [name |-> x, value |-> value]

\* Term::Quant, Term::Choice and Term::Let
Quant(q, bindings, inner) ==
    [tag |-> "quant", name |-> q, bindings |-> bindings, args |-> << inner >>]
Choice(x, sort, inner) ==
    [tag |-> "choice", name |-> x, sort |-> sort, args |-> << inner >>]
Let(bindings, inner) ==
    [tag |-> "let", name |-> "", bindings |-> bindings, args |-> << inner >>]

Operators ==
    {"not", "=>", "or", "and", "xor", "=", "distinct", "ite", "+", "-", "*",
     "div", "/", "<", ">", "<=", ">=", "select", "store"}

\* Sort::Array(x, y), written (Array x y), over the sorts without parameters
ElementSorts == {"Bool", "Int", "Real"}
ArraySort(x, y) == "(Array " \o x \o " " \o y \o ")"
IsArray(sort) == \E x, y \in ElementSorts : sort = ArraySort(x, y)
ArrayIndex(sort) == CHOOSE x \in ElementSorts : \E y \in ElementSorts : sort = ArraySort(x, y)
ArrayElement(sort) ==
    CHOOSE y \in ElementSorts : \E x \in ElementSorts : sort = ArraySort(x, y)

\* Term::sort (section 4.2 of the specification)
RECURSIVE SortOf(_)
SortOf(t) ==
    CASE t.tag \in {"var", "int", "real", "choice"} -> t.sort
      [] t.tag = "quant" -> "Bool"
      [] t.tag = "let" -> SortOf(t.args[1])
      [] t.tag = "op" ->
            IF t.name \in {"+", "-", "*", "div", "/", "store"} THEN SortOf(t.args[1])
            ELSE IF t.name = "ite" THEN SortOf(t.args[2])
            ELSE IF t.name = "select" THEN ArrayElement(SortOf(t.args[1]))
            ELSE "Bool"

\* The state a term is parsed in: the part of ParserState and Parser that
\* parse_term reads or writes.
TermState(table, defs, decls, reals) ==
    [table |-> table, defs |-> defs, decls |-> decls, reals |-> reals]

NoTerm == [tag |-> "none"]
POk(t, st) == [k |-> "Ok", err |-> "", term |-> t, st |-> st]
PErr(e, st) == [k |-> "Err", err |-> e, term |-> NoTerm, st |-> st]

\* FunctionDef
FunctionDef(params, body) == [kind |-> "def", params |-> params, body |-> body]

DefsInsert(defs, name, def) ==
    [f \in DOMAIN defs \cup {name} |-> IF f = name THEN def ELSE defs[f]]

\* parse_sort, for a sort written as a symbol
parse_sort(st, name) ==
    IF name \in {"Bool", "Int", "Real", "String"} THEN POk(name, st)
    ELSE IF IsArray(name) THEN POk(name, st)
    ELSE IF name = "Array" THEN PErr("WrongNumberOfArgs", st)
    ELSE IF name \in DOMAIN st.decls
         THEN IF st.decls[name] = 0 THEN POk(name, st)
              ELSE PErr("WrongNumberOfArgs", st)
         ELSE PErr("UndefinedSort", st)

\* make_var
make_var(st, iden) ==
    LET sort == get(st.table, iden)
    IN  IF sort.k = "None" THEN PErr("UndefinedIden", st)
        ELSE POk(Var(iden, sort.v), st)

AllSort_first(sorts, S) == sorts[1] \in S
AllSort(sorts, S) == \A j \in 1..Len(sorts) : sorts[j] \in S
AllEq(sorts) == \A j \in 1..Len(sorts) : sorts[j] = sorts[1]

\* make_op: the number of arguments, then their sorts
make_op(st, op, ts) ==
    LET sorts == [j \in 1..Len(ts) |-> SortOf(ts[j])]
        count == Len(ts)
        Checked(arity_ok, sorts_ok) ==
            IF ~arity_ok THEN PErr("WrongNumberOfArgs", st)
            ELSE IF ~sorts_ok THEN PErr("SortError", st)
            ELSE POk(Op(op, ts), st)
    IN  CASE op = "not" -> Checked(count = 1, sorts[1] = "Bool")
          [] op = "=>" -> Checked(count >= 2, AllSort(sorts, {"Bool"}))
          [] op \in {"or", "and", "xor"} -> Checked(count >= 1, AllSort(sorts, {"Bool"}))
          [] op \in {"=", "distinct"} -> Checked(count >= 2, AllEq(sorts))
          [] op = "ite" ->
                Checked(count = 3, sorts[1] = "Bool" /\ sorts[2] = sorts[3])
          [] op \in {"+", "*", "div", "/"} ->
                Checked(count >= 2, sorts[1] \in {"Int", "Real"} /\ AllEq(sorts))
          [] op = "-" ->
                Checked(count >= 1, sorts[1] \in {"Int", "Real"} /\ AllEq(sorts))
          [] op \in {"<", ">", "<=", ">="} ->
                Checked(count >= 2, AllSort(sorts, {"Int", "Real"}))
          \* lines 174-192: the sort of the second argument is not looked at
          [] op = "select" -> Checked(count = 2, IsArray(sorts[1]))
          [] op = "store" ->
                Checked(count = 3,
                        /\ IsArray(sorts[1])
                        /\ ArrayIndex(sorts[1]) = sorts[2]
                        /\ ArrayElement(sorts[1]) = sorts[3])

\* make_app: no term of the model has a Function sort
make_app(st, function, ts) == PErr("NotAFunction", st)

\* Substitution::apply, for the beta reduction of a defined function: the
\* parameters that a binder rebinds are left alone under it.
RECURSIVE Substitute(_, _)
Substitute(t, map) ==
    LET Without(names) == [v \in {w \in DOMAIN map : w.name \notin names} |-> map[v]]
        Under(names) == Substitute(t.args[1], Without(names))
    IN  IF t \in DOMAIN map THEN map[t]
        ELSE CASE t.tag = "op" ->
                     [t EXCEPT !.args = [j \in 1..Len(t.args) |-> Substitute(t.args[j], map)]]
               [] t.tag = "quant" ->
                     [t EXCEPT !.args =
                         << Under({t.bindings[j][1] : j \in 1..Len(t.bindings)}) >>]
               [] t.tag = "choice" -> [t EXCEPT !.args = << Under({t.name}) >>]
               [] t.tag = "let" ->
                     [t EXCEPT !.bindings =
                                   [j \in 1..Len(t.bindings) |->
                                       << t.bindings[j][1], Substitute(t.bindings[j][2], map) >>],
                               !.args =
                                   << Under({t.bindings[j][1] : j \in 1..Len(t.bindings)}) >>]
               [] OTHER -> t

(***************************************************************************)
(* Term parsing.  Each function returns Ok with the term and the state     *)
(* after it, or Err with the error and the state at the moment the error   *)
(* is returned (the ? operator returns at once).                           *)
(***************************************************************************)
WithTable(st, table) == [st EXCEPT !.table = table]
SeqOk(ts, st) == [k |-> "Ok", err |-> "", terms |-> ts, st |-> st]
SeqErr(e, st) == [k |-> "Err", err |-> e, terms |-> << >>, st |-> st]

\* let r = value; Rest(r): the value is computed once.
Bind(value, Rest(_)) == CHOOSE out \in {Rest(r) : r \in {value}} : TRUE

\* insert_sorted_var
insert_sorted_var(st, x, sort) ==
    WithTable(st, SymbolTable_insert(st.table, x, sort))

\* parse_sorted_var
parse_sorted_var(st, var) == parse_sort(st, var.sort)

RECURSIVE parse_term(_, _)
RECURSIVE ParseTerms(_, _, _, _)
RECURSIVE ParseSortedVars(_, _, _, _)
RECURSIVE ParseLetBindings(_, _, _, _)

\* parse_sequence(Self::parse_term, true)
ParseTerms(st, list, from, parsed) ==
    IF from > Len(list)
    THEN IF parsed = << >> THEN SeqErr("EmptySequence", st) ELSE SeqOk(parsed, st)
    ELSE Bind(parse_term(st, list[from]), LAMBDA r :
             IF r.k = "Err" THEN SeqErr(r.err, r.st)
             ELSE ParseTerms(r.st, list, from + 1, Append(parsed, r.term)))

\* parse_sequence of the closure of parse_quantifier (lines 777-784)
ParseSortedVars(st, list, from, parsed) ==
    IF from > Len(list)
    THEN IF parsed = << >> THEN SeqErr("EmptySequence", st) ELSE SeqOk(parsed, st)
    ELSE Bind(parse_sorted_var(st, list[from]), LAMBDA r :
             IF r.k = "Err" THEN SeqErr(r.err, r.st)
             ELSE Bind(insert_sorted_var(r.st, list[from].name, r.term), LAMBDA bound :
                      ParseSortedVars(bound, list, from + 1,
                                      Append(parsed, << list[from].name, r.term >>))))

\* parse_sequence of the closure of parse_let_term (lines 804-815)
ParseLetBindings(st, list, from, parsed) ==
    IF from > Len(list)
    THEN IF parsed = << >> THEN SeqErr("EmptySequence", st) ELSE SeqOk(parsed, st)
    ELSE Bind(parse_term(st, list[from].value), LAMBDA r :
             IF r.k = "Err" THEN SeqErr(r.err, r.st)
             ELSE Bind(insert_sorted_var(r.st, list[from].name, SortOf(r.term)),
                       LAMBDA bound :
                           ParseLetBindings(bound, list, from + 1,
                                            Append(parsed, << list[from].name, r.term >>))))

\* parse_term_expecting_sort
parse_term_expecting_sort(st, sx, expected_sort) ==
    Bind(parse_term(st, sx), LAMBDA r :
        IF r.k = "Err" THEN r
        ELSE IF SortOf(r.term) # expected_sort THEN PErr("SortError", r.st)
        ELSE r)

\* parse_quantifier
parse_quantifier_unpopped(st, sx) ==
    Bind(ParseSortedVars(WithTable(st, push_scope(st.table)), sx.bindings, 1, << >>),
         LAMBDA bindings :
        IF bindings.k = "Err" THEN PErr(bindings.err, bindings.st)
        ELSE Bind(parse_term_expecting_sort(bindings.st, sx.body, "Bool"), LAMBDA term :
                 IF term.k = "Err" THEN term
                 ELSE POk(Quant(sx.quantifier, bindings.terms, term.term), term.st)))
parse_quantifier(st, sx) ==
    Bind(ParseSortedVars(WithTable(st, push_scope(st.table)), sx.bindings, 1, << >>),
         LAMBDA bindings :
        IF bindings.k = "Err" THEN PErr(bindings.err, bindings.st)
        ELSE Bind(parse_term_expecting_sort(bindings.st, sx.body, "Bool"), LAMBDA term :
                 IF term.k = "Err" THEN term
                 ELSE POk(Quant(sx.quantifier, bindings.terms, term.term),
                          WithTable(term.st, pop_scope(term.st.table)))))

\* parse_choice_term
parse_choice_term(st, sx) ==
    Bind(parse_sorted_var(st, sx), LAMBDA var :
        IF var.k = "Err" THEN var
        ELSE Bind(parse_term(insert_sorted_var(var.st, sx.name, var.term), sx.body),
                  LAMBDA inner :
                      IF inner.k = "Err" THEN inner
                      ELSE POk(Choice(sx.name, var.term, inner.term), inner.st)))

\* parse_let_term
parse_let_term(st, sx) ==
    Bind(ParseLetBindings(WithTable(st, push_scope(st.table)), sx.bindings, 1, << >>),
         LAMBDA bindings :
        IF bindings.k = "Err" THEN PErr(bindings.err, bindings.st)
        ELSE Bind(parse_term(bindings.st, sx.body), LAMBDA inner :
                 IF inner.k = "Err" THEN inner
                 ELSE POk(Let(bindings.terms, inner.term),
                          WithTable(inner.st, pop_scope(inner.st.table)))))

\* parse_annotated_term, for one attribute with a symbol as its value
parse_annotated_term_unregistered(st, sx) == parse_term(st, sx.inner)
parse_annotated_term(st, sx) ==
    Bind(parse_term(st, sx.inner), LAMBDA inner :
        IF inner.k = "Err" THEN inner
        ELSE IF sx.attribute = "named"
        THEN POk(inner.term,
                 [inner.st EXCEPT !.defs =
                     DefsInsert(inner.st.defs, sx.name, FunctionDef(<< >>, inner.term))])
        ELSE PErr("UnknownAttribute", inner.st))

\* parse_application, lines 889-929: a defined function is applied by a
\* beta reduction
ApplyFunctionDef(st, sx) ==
    Bind(ParseTerms(st, sx.terms, 1, << >>), LAMBDA ts :
        IF ts.k = "Err" THEN PErr(ts.err, ts.st)
        ELSE LET func == ts.st.defs[sx.head]
                 Key(j) == Var(func.params[j][1], func.params[j][2])
                 Position(key) ==
                     CHOOSE j \in 1..Len(ts.terms) :
                         Key(j) = key /\ \A l \in 1..Len(ts.terms) : Key(l) = key => l <= j
                 substitution ==
                     [key \in {Key(j) : j \in 1..Len(ts.terms)} |-> ts.terms[Position(key)]]
             IN  IF Len(ts.terms) # Len(func.params) THEN PErr("WrongNumberOfArgs", ts.st)
                 ELSE IF \E j \in 1..Len(ts.terms) : func.params[j][2] # SortOf(ts.terms[j])
                 THEN PErr("SortError", ts.st)
                 ELSE POk(Substitute(func.body, substitution), ts.st))

\* parse_application
parse_application(st, sx) ==
    CASE sx.form = "quant" -> parse_quantifier(st, sx)
      [] sx.form = "choice" -> parse_choice_term(st, sx)
      [] sx.form = "!" -> parse_annotated_term(st, sx)
      [] sx.form = "let" -> parse_let_term(st, sx)
      [] sx.form = "reserved" -> PErr("UnexpectedToken", st)
      [] sx.form = "app" /\ sx.head \in Operators ->
            Bind(ParseTerms(st, sx.terms, 1, << >>), LAMBDA ts :
                IF ts.k = "Err" THEN PErr(ts.err, ts.st)
                ELSE make_op(ts.st, sx.head, ts.terms))
      [] sx.form = "app" /\ sx.head \notin Operators /\ sx.head \in DOMAIN st.defs ->
            ApplyFunctionDef(st, sx)
      [] OTHER ->
            Bind(parse_term(st, SSymbol(sx.head)), LAMBDA func :
                IF func.k = "Err" THEN func
                ELSE Bind(ParseTerms(func.st, sx.terms, 1, << >>), LAMBDA ts :
                         IF ts.k = "Err" THEN PErr(ts.err, ts.st)
                         ELSE make_app(ts.st, func.term, ts.terms)))

\* parse_term
parse_term(st, sx) ==
    CASE sx.form = "numeral" ->
            POk(IF st.reals THEN RealLit(FromInteger(sx.num)) ELSE IntLit(sx.num), st)
      [] sx.form = "decimal" -> POk(RealLit(sx.ratio), st)
      [] sx.form = "symbol" ->
            IF sx.name \in DOMAIN st.defs
            THEN IF st.defs[sx.name].params = << >>
                 THEN POk(st.defs[sx.name].body, st)
                 ELSE PErr("WrongNumberOfArgs", st)
            ELSE make_var(st, sx.name)
      [] OTHER -> parse_application(st, sx)

(***************************************************************************)
(* Commands.  A command of the input is a record: its kind (the token      *)
(* after the opening parenthesis) and what it spells.                      *)
(***************************************************************************)
\* parse_sequence(Self::parse_sorted_var, false), line 672
RECURSIVE ParseParams(_, _, _, _)
ParseParams(st, list, from, parsed) ==
    IF from > Len(list) THEN SeqOk(parsed, st)
    ELSE Bind(parse_sorted_var(st, list[from]), LAMBDA r :
             IF r.k = "Err" THEN SeqErr(r.err, r.st)
             ELSE ParseParams(r.st, list, from + 1,
                              Append(parsed, << list[from].name, r.term >>)))

\* lines 678-680
RECURSIVE InsertParams(_, _, _)
InsertParams(st, params, from) ==
    IF from > Len(params) THEN st
    ELSE Bind(insert_sorted_var(st, params[from][1], params[from][2]), LAMBDA bound :
             InsertParams(bound, params, from + 1))

\* parse_define_fun: Ok carries the FunctionDef
parse_define_fun(st, cmd) ==
    Bind(ParseParams(st, cmd.params, 1, << >>), LAMBDA params :
        IF params.k = "Err" THEN PErr(params.err, params.st)
        ELSE Bind(parse_sort(params.st, cmd.sort), LAMBDA return_sort :
                 IF return_sort.k = "Err" THEN return_sort
                 ELSE Bind(parse_term_expecting_sort(
                               InsertParams(
                                   WithTable(return_sort.st, push_scope(return_sort.st.table)),
                                   params.terms, 1),
                               cmd.body, return_sort.term),
                           LAMBDA body :
                               IF body.k = "Err" THEN body
                               ELSE POk(FunctionDef(params.terms, body.term),
                                        WithTable(body.st, pop_scope(body.st.table))))))

\* lines 429-432 and 339-343: the definition is stored under its name
DefineFun(st, cmd) ==
    Bind(parse_define_fun(st, cmd), LAMBDA r :
        IF r.k = "Err" THEN r
        ELSE POk(r.term, [r.st EXCEPT !.defs = DefsInsert(r.st.defs, cmd.name, r.term)]))

\* lines 355-367
RealLogics == {"LRA", "QF_LRA", "QF_NRA", "QF_RDL", "QF_UFLRA", "QF_UFNRA", "UFLRA"}

OtherLogics ==
    {"AUFLIA", "AUFLIRA", "AUFNIRA", "LIA", "QF_ABV", "QF_AUFBV", "QF_AUFLIA",
     "QF_AX", "QF_BV", "QF_IDL", "QF_LIA", "QF_NIA", "QF_UF", "QF_UFBV",
     "QF_UFIDL", "QF_UFLIA", "UFNIA"}

set_logic_without_QF_UFNRA(logic) == logic \in RealLogics \ {"QF_UFNRA"}
set_logic(logic) ==
    CASE logic \in RealLogics -> TRUE
      [] logic \in OtherLogics -> FALSE
      [] OTHER -> FALSE

(***************************************************************************)
(* parse_problem, one iteration of its loop per command.  The iteration    *)
(* maps the state st and the premises collected so far to those after the  *)
(* command, or to the error returned.                                      *)
(***************************************************************************)
ProblemOk(st, prem) == [k |-> "Ok", err |-> "", st |-> st, premises |-> prem]
ProblemErr(e, st, prem) == [k |-> "Err", err |-> e, st |-> st, premises |-> prem]

\* lines 319-331: declare-fun without parameters, and declare-const
parse_problem_declare(st, prem, cmd) ==
    Bind(parse_sort(st, cmd.sort), LAMBDA sort :
        IF sort.k = "Err" THEN ProblemErr(sort.err, sort.st, prem)
        ELSE ProblemOk(insert_sorted_var(sort.st, cmd.name, sort.term), prem))

\* lines 332-338
parse_problem_declare_sort(st, prem, cmd) ==
    ProblemOk([st EXCEPT !.decls =
                  [s \in DOMAIN st.decls \cup {cmd.name} |->
                      IF s = cmd.name THEN cmd.arity ELSE st.decls[s]]],
              prem)

\* lines 339-343
parse_problem_define_fun(st, prem, cmd) ==
    Bind(DefineFun(st, cmd), LAMBDA r :
        IF r.k = "Err" THEN ProblemErr(r.err, r.st, prem) ELSE ProblemOk(r.st, prem))

\* lines 344-348
parse_problem_assert(st, prem, cmd) ==
    Bind(parse_term(st, cmd.term), LAMBDA term :
        IF term.k = "Err" THEN ProblemErr(term.err, term.st, prem)
        ELSE ProblemOk(term.st, prem \cup {term.term}))

\* lines 349-370
parse_problem_set_logic(st, prem, cmd) ==
    ProblemOk([st EXCEPT !.reals = set_logic(cmd.logic)], prem)

\* read_until_close_parens on the tokens that follow the head of a command,
\* to the end of the input: the number of tokens read, or none at Eof.
RECURSIVE ReadTokens(_, _, _)
ReadTokens(tokens, from, parens_depth) ==
    IF parens_depth = 0 THEN Some(from - 1)
    ELSE IF from > Len(tokens) THEN None(from - 1)
    ELSE ReadTokens(tokens, from + 1,
                    parens_depth + CASE tokens[from] = "(" -> 1
                                     [] tokens[from] = ")" -> -1
                                     [] OTHER -> 0)

read_until_first_close(tokens) ==
    IF \E j \in 1..Len(tokens) : tokens[j] = ")"
    THEN Some(CHOOSE j \in 1..Len(tokens) :
                  tokens[j] = ")" /\ \A l \in 1..(j - 1) : tokens[l] # ")")
    ELSE None(Len(tokens))
read_until_close_parens(tokens) == ReadTokens(tokens, 1, 1)

\* The tokens after the head of a skipped command, and the command that
\* follows it in the input.
Following == << "(", "exit", ")" >>
CommandTokens(cmd) == cmd.rest \o (IF cmd.closed THEN << ")" >> \o Following ELSE << >>)

\* lines 371-375: any other command is read to its closing parenthesis
parse_problem_skip(st, prem, cmd) ==
    IF read_until_close_parens(CommandTokens(cmd)).k = "None"
    THEN ProblemErr("UnexpectedToken", st, prem)
    ELSE ProblemOk(st, prem)

parse_problem_command(st, prem, cmd) ==
    CASE cmd.kind \in {"declare-fun", "declare-const"} -> parse_problem_declare(st, prem, cmd)
      [] cmd.kind = "declare-sort" -> parse_problem_declare_sort(st, prem, cmd)
      [] cmd.kind = "define-fun" -> parse_problem_define_fun(st, prem, cmd)
      [] cmd.kind = "assert" -> parse_problem_assert(st, prem, cmd)
      [] cmd.kind = "set-logic" -> parse_problem_set_logic(st, prem, cmd)
      [] OTHER -> parse_problem_skip(st, prem, cmd)

\* parse_problem on a whole script, from command `from` on
RECURSIVE parse_problem(_, _, _, _)
parse_problem(st, prem, script, from) ==
    IF from > Len(script) THEN ProblemOk(st, prem)
    ELSE Bind(parse_problem_command(st, prem, script[from]), LAMBDA r :
             IF r.k = "Err" THEN r
             ELSE parse_problem(r.st, r.premises, script, from + 1))

(***************************************************************************)
(* Proof commands.                                                         *)
(***************************************************************************)
\* ProofCommand::Assume, ProofCommand::Step and ProofCommand::Subproof
Assume(index, term) == [kind |-> "Assume", index |-> index, term |-> term]
Step(index, clause, rule_name, prems, step_args, discharge) ==
    [kind |-> "Step", index |-> index, clause |-> clause, rule |-> rule_name,
     premises |-> prems, args |-> step_args, discharge |-> discharge]
Subproof(commands, assignment_args, variable_args) ==
    [kind |-> "Subproof", commands |-> commands,
     assignment_args |-> assignment_args, variable_args |-> variable_args]

\* parse_assume_command
parse_assume_command(st, cmd) == parse_term_expecting_sort(st, cmd.term, "Bool")

\* parse_clause: parse_sequence of parse_term_expecting_sort(Bool), which
\* may be empty
RECURSIVE parse_clause(_, _, _, _)
parse_clause(st, list, from, parsed) ==
    IF from > Len(list) THEN SeqOk(parsed, st)
    ELSE Bind(parse_term_expecting_sort(st, list[from], "Bool"), LAMBDA r :
             IF r.k = "Err" THEN SeqErr(r.err, r.st)
             ELSE parse_clause(r.st, list, from + 1, Append(parsed, r.term)))

\* parse_sequence(Self::parse_proof_arg, true): an argument of the input is
\* a term, or (:= name term)
RECURSIVE ParseProofArgs(_, _, _, _)
ParseProofArgs(st, list, from, parsed) ==
    IF from > Len(list)
    THEN IF parsed = << >> THEN SeqErr("EmptySequence", st) ELSE SeqOk(parsed, st)
    ELSE Bind(parse_term(st, list[from].term), LAMBDA r :
             IF r.k = "Err" THEN SeqErr(r.err, r.st)
             ELSE ParseProofArgs(r.st, list, from + 1,
                      Append(parsed,
                             IF list[from].assign
                             THEN ArgAssign(list[from].name, r.term)
                             ELSE ArgTerm(r.term))))

\* parse_step_command: Ok carries the StepCommand, with the premises still
\* as index symbols.  A trust step is read to its closing parenthesis; in
\* the commands of the model an attribute that is written is not empty.
parse_step_command_keeping_attributes(st, cmd) ==
    Bind(parse_clause(st, cmd.clause, 1, << >>), LAMBDA clause :
        IF clause.k = "Err" THEN PErr(clause.err, clause.st)
        ELSE POk(Step(cmd.index, clause.terms, cmd.rule, cmd.premises, << >>,
                      cmd.discharge), clause.st))
parse_step_command(st, cmd) ==
    Bind(parse_clause(st, cmd.clause, 1, << >>), LAMBDA clause :
        IF clause.k = "Err" THEN PErr(clause.err, clause.st)
        ELSE IF cmd.rule = "trust"
        THEN POk(Step(cmd.index, clause.terms, cmd.rule, << >>, << >>, << >>), clause.st)
        ELSE Bind(IF cmd.args = << >> THEN SeqOk(<< >>, clause.st)
                  ELSE ParseProofArgs(clause.st, cmd.args, 1, << >>),
                  LAMBDA step_args :
                      IF step_args.k = "Err" THEN PErr(step_args.err, step_args.st)
                      ELSE POk(Step(cmd.index, clause.terms, cmd.rule, cmd.premises,
                                    step_args.terms, cmd.discharge),
                               step_args.st)))

\* parse_anchor_argument: (:= (x s) value) or (x s)
parse_anchor_argument(st, arg) ==
    Bind(parse_sort(st, arg.sort), LAMBDA sort :
        IF sort.k = "Err" THEN sort
        ELSE Bind(insert_sorted_var(sort.st, arg.name, sort.term), LAMBDA bound :
                 IF ~arg.assign THEN POk(<< arg.name, sort.term >>, bound)
                 ELSE IF arg.value.form = "symbol" /\ arg.value.name \notin DOMAIN st.defs
                 THEN POk(<< arg.name, Var(arg.value.name, sort.term) >>,
                          insert_sorted_var(bound, arg.value.name, sort.term))
                 ELSE Bind(parse_term_expecting_sort(bound, arg.value, sort.term),
                           LAMBDA value :
                               IF value.k = "Err" THEN value
                               ELSE POk(<< arg.name, value.term >>, value.st))))

\* lines 588-596
RECURSIVE ParseAnchorArgs(_, _, _, _, _)
ParseAnchorArgs(st, list, from, assignment_args, variable_args) ==
    IF from > Len(list)
    THEN POk([assignment_args |-> assignment_args, variable_args |-> variable_args], st)
    ELSE Bind(parse_anchor_argument(st, list[from]), LAMBDA r :
             IF r.k = "Err" THEN r
             ELSE IF list[from].assign
             THEN ParseAnchorArgs(r.st, list, from + 1,
                                  Append(assignment_args, r.term), variable_args)
             ELSE ParseAnchorArgs(r.st, list, from + 1,
                                  assignment_args, Append(variable_args, r.term)))

\* parse_anchor_command: the scope it pushes is left for parse_proof to pop
parse_anchor_command_without_scope(st, cmd) ==
    ParseAnchorArgs(st, cmd.args, 1, << >>, << >>)
parse_anchor_command(st, cmd) ==
    ParseAnchorArgs(WithTable(st, push_scope(st.table)), cmd.args, 1, << >>, << >>)

\* lines 403-417: every premise symbol is looked up in step_indices
ResolvePremises_lenient(indices, names) ==
    Some([j \in 1..Len(names) |-> get_with_depth(indices, names[j]).v])
ResolvePremises(indices, names) ==
    IF \E j \in 1..Len(names) : get_with_depth(indices, names[j]).k = "None"
    THEN None(names[CHOOSE j \in 1..Len(names) :
                  /\ get_with_depth(indices, names[j]).k = "None"
                  /\ \A l \in 1..(j - 1) : get_with_depth(indices, names[l]).k = "Some"])
    ELSE Some([j \in 1..Len(names) |-> get_with_depth(indices, names[j]).v])

\* The bindings a symbol table makes visible.
Visible(table) ==
    [key \in UNION {DOMAIN table[d] : d \in 1..Len(table)} |-> get(table, key).v]

Last(stack) == stack[Len(stack)]
Pop(stack) == SubSeq(stack, 1, Len(stack) - 1)
PushLast(stack, cmd) == [stack EXCEPT ![Len(stack)] = Append(stack[Len(stack)], cmd)]

(***************************************************************************)
(* The inputs the parser is run on.                                        *)
(***************************************************************************)
\* The commands read after the declarations of a problem, and the commands
\* read from a proof.
MaxProblemCommands == 2
MaxProofCommands == 4

Declare(x, sort) == [kind |-> "declare-const", name |-> x, sort |-> sort]
DeclareFun(x, sort) == [kind |-> "declare-fun", name |-> x, sort |-> sort]
DeclareSort(s, arity) == [kind |-> "declare-sort", name |-> s, arity |-> arity]
DefineFunCommand(f, params, sort, body) ==
    [kind |-> "define-fun", name |-> f, params |-> params, sort |-> sort, body |-> body]
AssertCommand(sx) == [kind |-> "assert", term |-> sx]
SetLogic(logic) == [kind |-> "set-logic", logic |-> logic]
OtherCommand(word) == [kind |-> word]
SkippedCommand(word, rest, closed) == [kind |-> word, rest |-> rest, closed |-> closed]
AssumeCommand(index, sx) == [kind |-> "assume", index |-> index, term |-> sx]
StepCommand(index, clause, rule_name, prems) ==
    [kind |-> "step", index |-> index, clause |-> clause, rule |-> rule_name,
     premises |-> prems, args |-> << >>, discharge |-> << >>]
AnchorCommand(end_step, anchor_args) ==
    [kind |-> "anchor", end_step |-> end_step, args |-> anchor_args]
VariableArg(x, sort) == [assign |-> FALSE, name |-> x, sort |-> sort]
AssignArg(x, sort, value) == [assign |-> TRUE, name |-> x, sort |-> sort, value |-> value]
ProofArgTerm(sx) == [assign |-> FALSE, name |-> "", term |-> sx]
ProofArgAssign(x, sx) == [assign |-> TRUE, name |-> x, term |-> sx]

\* The declarations a problem begins with.
Preludes ==
    { << Declare("x", "Real"), Declare("b", "Bool") >>,
      << DeclareFun("x", "Int"), Declare("b", "Bool") >> }

XisOne == SApp("=", << SSymbol("x"), SNumeral(1) >>)

Declarations == { Declare("y", "Bool"), Declare("x", "U"), DeclareFun("x", "Int") }

SortDeclarations == { DeclareSort("U", 0) }

Definitions ==
    { DefineFunCommand("f", << >>, "Int", SNumeral(1)),
      DefineFunCommand("g", << SortedVar("y", "Bool") >>, "Bool",
                       SApp("or", << SSymbol("y"), SSymbol("b") >>)),
      \* the body fails: an undefined identifier, a wrong sort
      DefineFunCommand("g", << SortedVar("y", "Bool") >>, "Bool", SSymbol("z")),
      DefineFunCommand("g", << SortedVar("y", "Int") >>, "Bool", SSymbol("y")) }

Logics == RealLogics \cup {"QF_LIA", "AUFLIRA", "QF_UF", "ALL", "QF_LRAT"}

\* f, a name the definitions give, bound by a quantifier
ForallF == SQuant("forall", << SortedVar("f", "Bool") >>, SSymbol("f"))

Assertions ==
    { SApp("=", << SNumeral(1), SSymbol("x") >>),
      ForallF,
      SApp("<", << SSymbol("x"), SDecimal(Ratio(3, 2)) >>),
      SSymbol("b"),
      SSymbol("x"),
      SNumeral(1),
      SApp("g", << SSymbol("b") >>),
      SApp("not", << SSymbol("x") >>),
      SAnnotated(SSymbol("b"), "named", "f"),
      SQuant("forall", << SortedVar("x", "Int") >>, XisOne),
      SQuant("exists", << SortedVar("y", "Bool"), SortedVar("x", "Int") >>,
             SApp("and", << SSymbol("y"), XisOne >>)),
      SQuant("forall", << SortedVar("x", "Int") >>, SSymbol("z")),
      SQuant("forall", << SortedVar("y", "Bool"), SortedVar("x", "W") >>, SSymbol("y")),
      SQuant("forall", << SortedVar("y", "Bool") >>,
             SQuant("exists", << SortedVar("x", "Int") >>, SSymbol("x"))),
      SChoice("x", "Int", XisOne),
      SChoice("y", "Bool", SSymbol("y")),
      SLet(<< LetBinding("y", SNumeral(1)), LetBinding("x", SSymbol("y")) >>, XisOne),
      SLet(<< LetBinding("x", SNumeral(1)) >>, SSymbol("z")),
      SLet(<< LetBinding("y", SSymbol("z")) >>, SSymbol("b")) }

\* Commands parse_problem does not look into; the last one is cut by the
\* end of the input.
SkippedCommands ==
    { SkippedCommand("check-sat", << >>, TRUE),
      SkippedCommand("get-value", << "(", "(", "g", "b", ")", "x", ")" >>, TRUE),
      SkippedCommand("push", << "(", "1" >>, FALSE) }

ProblemCommands ==
    Declarations \cup SortDeclarations \cup Definitions
        \cup {AssertCommand(sx) : sx \in Assertions}
        \cup {SetLogic(logic) : logic \in Logics}
        \cup SkippedCommands

\* The problem whose proofs are parsed.
XbelowOne == SApp("<", << SSymbol("x"), SNumeral(1) >>)

Problems ==
    { << SetLogic("QF_LRA"), Declare("b", "Bool"), Declare("x", "Real"),
         AssertCommand(SSymbol("b")), AssertCommand(XbelowOne) >> }

Leaking == SQuant("forall", << SortedVar("x", "Int") >>, SSymbol("z"))

NotB == SApp("not", << SSymbol("b") >>)

\* n is the name a step of the proof gives to (not b)
AssumeCommands ==
    {AssumeCommand(j, SSymbol("b")) : j \in {"h1", "t1"}}
        \cup {AssumeCommand("h1", SSymbol("n"))}
        \cup {AssumeCommand("h1", sx) :
                  sx \in {SChoice("y", "Bool", SSymbol("y")), Leaking, XbelowOne}}

StepCommands ==
    {StepCommand(j, << >>, "resolution", << >>) : j \in {"t1", "t2"}}
        \cup {StepCommand("t2", << >>, "resolution", prems) :
                  prems \in {<< "h1" >>, << "h1", "t1" >>}}
        \cup {StepCommand("t1", << >>, "resolution", prems) :
                  prems \in {<< "h1" >>, << "t1" >>}}
        \cup {StepCommand("t1", << >>, "trust", << "zz" >>)}
        \cup {StepCommand("t1", << SAnnotated(NotB, "named", "n") >>, "resolution", << >>)}
        \cup {StepCommand("t1", clause, "resolution", << >>) :
                  clause \in {<< SSymbol("b"), SSymbol("y") >>, << Leaking >>}}
        \cup {[StepCommand("t1", << >>, "resolution", << >>) EXCEPT
                  !.args = << ProofArgTerm(SChoice("v", "Int", SSymbol("b"))),
                              ProofArgAssign("y", SSymbol("b")) >>]}

AnchorArgLists ==
    { << VariableArg("y", "Bool") >>,
      << AssignArg("y", "Bool", SSymbol("w")), VariableArg("v", "Int") >>,
      << AssignArg("y", "Int", SSymbol("b")) >>,
      \* the sort is not declared
      << VariableArg("v", "W") >> }

AnchorCommands ==
    {AnchorCommand(j, << >>) : j \in {"t1", "t2"}}
        \cup {AnchorCommand("t2", anchor_args) : anchor_args \in AnchorArgLists}

ProofCommands ==
    AssumeCommands \cup StepCommands \cup AnchorCommands
        \cup {DefineFunCommand("f", << >>, "Int", SNumeral(1))}
        \cup {OtherCommand("assert")}

(***************************************************************************)
(* The parser as a state machine: one action per arm of the loops of       *)
(* parse_problem and parse_proof, each the whole iteration.                *)
(***************************************************************************)
CurrentState ==
    TermState(sorts_symbol_table, function_defs, sort_declarations,
              interpret_integers_as_reals)

SetState(st) ==
    /\ sorts_symbol_table' = st.table
    /\ function_defs' = st.defs
    /\ sort_declarations' = st.decls
    /\ interpret_integers_as_reals' = st.reals

NewState ==
    TermState(SymbolTable_insert(SymbolTable_insert(SymbolTable_new, "true", "Bool"),
                                 "false", "Bool"),
              [f \in {} |-> NoCommand], [s \in {} |-> 0], FALSE)

proof_locals ==
    << step_indices, commands_stack, end_step_stack, subproof_args_stack, anchored >>

\* No rule checker runs while the parser does.
CheckerIdle ==
    /\ rule = ""
    /\ conclusion = << >>
    /\ args = << >>
    /\ pc = "idle"
    /\ i = 1
    /\ item = NoItem
    /\ acc_op = "="
    /\ acc = LinearComb_new
    /\ verdict = "none"

StateIs(st) ==
    /\ sorts_symbol_table = st.table
    /\ function_defs = st.defs
    /\ sort_declarations = st.decls
    /\ interpret_integers_as_reals = st.reals

\* Either Parser::new has parsed the declarations of a problem and
\* parse_problem goes on, or parse_instance is at line 23: a problem is
\* parsed, and with_state hands its state to the parser of the proof
\* (interpret_integers_as_reals is false again).
ParserInit ==
    /\ CheckerIdle
    /\ MetricsIdle
    /\ step_indices = SymbolTable_new
    /\ commands_stack = << << >> >>
    /\ end_step_stack = << >>
    /\ subproof_args_stack = << >>
    /\ anchored = << >>
    /\ position = 0
    /\ command = NoCommand
    /\ result = Running
    /\ error_position = NoPosition
    /\ \/ \E prelude \in Preludes :
              \E r \in {parse_problem(NewState, {}, prelude, 1)} :
                  /\ phase = "problem"
                  /\ StateIs(r.st)
                  /\ premises = r.premises
       \/ \E problem \in Problems :
              \E r \in {parse_problem(NewState, {}, problem, 1)} :
                  /\ phase = "proof"
                  /\ StateIs([r.st EXCEPT !.reals = FALSE])
                  /\ premises = r.premises

\* line 316: while current_token != Eof
ProblemReads(cmd) ==
    /\ phase = "problem"
    /\ position < MaxProblemCommands
    /\ cmd \in ProblemCommands

\* One iteration of the loop of parse_problem, r what the arm made of cmd.
ProblemIteration(cmd, r) ==
    /\ position' = position + 1
    /\ command' = cmd
    /\ SetState(r.st)
    /\ premises' = r.premises
    /\ IF r.k = "Err"
       THEN /\ result' = Err(r.err, "")
            /\ error_position' = TokenAt(position + 1, "inside", 0)
            /\ phase' = "done"
       ELSE UNCHANGED << result, error_position, phase >>
    /\ UNCHANGED proof_locals
    /\ UNCHANGED vars

Problem_declare ==
    \E cmd \in ProblemCommands :
        /\ ProblemReads(cmd)
        /\ cmd.kind \in {"declare-fun", "declare-const"}
        /\ \E r \in {parse_problem_declare(CurrentState, premises, cmd)} :
               ProblemIteration(cmd, r)

Problem_declare_sort ==
    \E cmd \in ProblemCommands :
        /\ ProblemReads(cmd)
        /\ cmd.kind = "declare-sort"
        /\ \E r \in {parse_problem_declare_sort(CurrentState, premises, cmd)} :
               ProblemIteration(cmd, r)

Problem_define_fun ==
    \E cmd \in ProblemCommands :
        /\ ProblemReads(cmd)
        /\ cmd.kind = "define-fun"
        /\ \E r \in {parse_problem_define_fun(CurrentState, premises, cmd)} :
               ProblemIteration(cmd, r)

Problem_assert ==
    \E cmd \in ProblemCommands :
        /\ ProblemReads(cmd)
        /\ cmd.kind = "assert"
        /\ \E r \in {parse_problem_assert(CurrentState, premises, cmd)} :
               ProblemIteration(cmd, r)

Problem_set_logic ==
    \E cmd \in ProblemCommands :
        /\ ProblemReads(cmd)
        /\ cmd.kind = "set-logic"
        /\ \E r \in {parse_problem_set_logic(CurrentState, premises, cmd)} :
               ProblemIteration(cmd, r)

Problem_skip ==
    \E cmd \in ProblemCommands :
        /\ ProblemReads(cmd)
        /\ cmd.kind \notin {"declare-fun", "declare-const", "declare-sort",
                            "define-fun", "assert", "set-logic"}
        /\ \E r \in {parse_problem_skip(CurrentState, premises, cmd)} :
               ProblemIteration(cmd, r)

\* line 378: at Eof parse_problem returns the premises
Problem_eof ==
    /\ phase = "problem"
    /\ phase' = "done"
    /\ command' = OtherCommand("eof")
    /\ result' = Ok(premises)
    /\ UNCHANGED << sorts_symbol_table, function_defs, sort_declarations,
                    interpret_integers_as_reals, premises, position,
                    error_position >>
    /\ UNCHANGED proof_locals
    /\ UNCHANGED vars

\* Lines 414, 450, 455 and 475: the errors parse_proof makes itself, with
\* the position line 391 took with the keyword of the command.
RaisedByParseProof(cmd, e) ==
    \/ e \in {"UndefinedStepIndex", "RepeatedStepIndex", "LastSubproofStepIsNotStep"}
    \/ cmd.kind \notin {"assume", "step", "define-fun", "anchor"}

\* parse_proof returns an error: its locals are as they were then.  An
\* error of a function it called has the position that function gave it.
ProofFails(cmd, e, index, st) ==
    /\ command' = cmd
    /\ position' = position + 1
    /\ SetState(st)
    /\ result' = Err(e, index)
    /\ error_position' = IF RaisedByParseProof(cmd, e)
                         THEN TokenAt(position + 1, "keyword", 0)
                         ELSE TokenAt(position + 1, "inside", 0)
    /\ phase' = "done"
    /\ UNCHANGED premises
    /\ UNCHANGED vars

\* line 452: the index is bound in some scope of step_indices
IsRepeated_current_scope(indices, index) == index \in DOMAIN Last(indices)
IsRepeated(indices, index) == get(indices, index).k = "Some"

\* lines 470-478: the last command of the subproof is a step
LastIsStep_unchecked(commands) == TRUE
LastIsStep(commands) == commands # << >> /\ Last(commands).kind = "Step"

\* line 491: the position of the command just added to the frame
PositionOfLast_after(frame) == Len(frame)
PositionOfLast(frame) == Len(frame) - 1

\* line 460: the index is the end step of the innermost open anchor
EndsSubproof_of_any_anchor(end_steps, index) ==
    \E d \in 1..Len(end_steps) : end_steps[d] = index
EndsSubproof(end_steps, index) ==
    end_steps # << >> /\ Last(end_steps) = index

\* lines 452-491: the command built for index is added to the proof
AddCommand(cmd, index, built, st) ==
    IF IsRepeated(step_indices, index)
    THEN ProofFails(cmd, "RepeatedStepIndex", index, st) /\ UNCHANGED proof_locals
    ELSE IF EndsSubproof(end_step_stack, index)
    THEN LET pushed == PushLast(commands_stack, built)
             commands == Last(pushed)
             subproof_args == Last(subproof_args_stack)
             closed == PushLast(Pop(pushed),
                                Subproof(commands, subproof_args.assignment_args,
                                         subproof_args.variable_args))
         IN  /\ end_step_stack' = Pop(end_step_stack)
             /\ subproof_args_stack' = Pop(subproof_args_stack)
             /\ anchored' = Pop(anchored)
             /\ IF LastIsStep(commands)
                THEN /\ commands_stack' = closed
                     /\ step_indices' =
                            SymbolTable_insert(pop_scope(step_indices), index,
                                               PositionOfLast(Last(closed)))
                     /\ command' = cmd
                     /\ position' = position + 1
                     /\ SetState(WithTable(st, pop_scope(st.table)))
                     /\ UNCHANGED << result, error_position, phase, premises >>
                     /\ UNCHANGED vars
                ELSE /\ commands_stack' = Pop(pushed)
                     /\ step_indices' = pop_scope(step_indices)
                     /\ ProofFails(cmd, "LastSubproofStepIsNotStep", index,
                                   WithTable(st, pop_scope(st.table)))
    ELSE LET pushed == PushLast(commands_stack, built)
         IN  /\ commands_stack' = pushed
             /\ step_indices' =
                    SymbolTable_insert(step_indices, index, PositionOfLast(Last(pushed)))
             /\ command' = cmd
             /\ position' = position + 1
             /\ SetState(st)
             /\ UNCHANGED << end_step_stack, subproof_args_stack, anchored, result,
                             error_position, phase, premises >>
             /\ UNCHANGED vars

ProofReads(cmd) ==
    /\ phase = "proof"
    /\ position < MaxProofCommands
    /\ cmd \in ProofCommands

\* lines 393-396
Proof_assume ==
    \E cmd \in ProofCommands :
        /\ ProofReads(cmd)
        /\ cmd.kind = "assume"
        /\ \E term \in {parse_assume_command(CurrentState, cmd)} :
               IF term.k = "Err"
               THEN ProofFails(cmd, term.err, "", term.st) /\ UNCHANGED proof_locals
               ELSE AddCommand(cmd, cmd.index, Assume(cmd.index, term.term), term.st)

\* lines 397-428
Proof_step ==
    \E cmd \in ProofCommands :
        /\ ProofReads(cmd)
        /\ cmd.kind = "step"
        /\ \E step \in {parse_step_command(CurrentState, cmd)} :
               IF step.k = "Err"
               THEN ProofFails(cmd, step.err, "", step.st) /\ UNCHANGED proof_locals
               ELSE \E prems \in {ResolvePremises(step_indices, step.term.premises)} :
                        IF prems.k = "None"
                        THEN ProofFails(cmd, "UndefinedStepIndex", prems.v, step.st)
                                 /\ UNCHANGED proof_locals
                        ELSE AddCommand(cmd, cmd.index,
                                        [step.term EXCEPT !.premises = prems.v], step.st)

\* lines 429-433
Proof_define_fun ==
    \E cmd \in ProofCommands :
        /\ ProofReads(cmd)
        /\ cmd.kind = "define-fun"
        /\ \E r \in {DefineFun(CurrentState, cmd)} :
               IF r.k = "Err"
               THEN ProofFails(cmd, r.err, "", r.st) /\ UNCHANGED proof_locals
               ELSE /\ command' = cmd
                    /\ position' = position + 1
                    /\ SetState(r.st)
                    /\ UNCHANGED << result, error_position, phase, premises >>
                    /\ UNCHANGED proof_locals
                    /\ UNCHANGED vars

\* lines 434-449
Proof_anchor ==
    \E cmd \in ProofCommands :
        /\ ProofReads(cmd)
        /\ cmd.kind = "anchor"
        /\ \E r \in {parse_anchor_command(CurrentState, cmd)} :
               IF r.k = "Err"
               THEN ProofFails(cmd, r.err, "", r.st) /\ UNCHANGED proof_locals
               ELSE /\ command' = cmd
                    /\ position' = position + 1
                    /\ SetState(r.st)
                    /\ step_indices' = push_scope(step_indices)
                    /\ commands_stack' = Append(commands_stack, << >>)
                    /\ end_step_stack' = Append(end_step_stack, cmd.end_step)
                    /\ subproof_args_stack' = Append(subproof_args_stack, r.term)
                    /\ anchored' = Append(anchored, Visible(sorts_symbol_table))
                    /\ UNCHANGED << result, error_position, phase, premises >>
                    /\ UNCHANGED vars

\* line 450
Proof_unexpected ==
    \E cmd \in ProofCommands :
        /\ ProofReads(cmd)
        /\ cmd.kind \notin {"assume", "step", "define-fun", "anchor"}
        /\ ProofFails(cmd, "UnexpectedToken", "", CurrentState)
        /\ UNCHANGED proof_locals

\* lines 493-503: what parse_proof returns at Eof
AtEof_outermost(frames, end_steps) ==
    IF Len(frames) = 1 THEN Ok(Last(frames)) ELSE Err("UnclosedSubproof", end_steps[1])
AtEof(frames, end_steps) ==
    IF Len(frames) = 1 THEN Ok(Last(frames)) ELSE Err("UnclosedSubproof", Last(end_steps))

Proof_eof ==
    /\ phase = "proof"
    /\ phase' = "done"
    /\ command' = OtherCommand("eof")
    /\ result' = AtEof(commands_stack, end_step_stack)
    /\ error_position' = IF Len(commands_stack) = 1 THEN error_position
                         ELSE TokenAt(position + 1, "eof", 0)
    /\ IF Len(commands_stack) = 1
       THEN commands_stack' = Pop(commands_stack) /\ UNCHANGED end_step_stack
       ELSE end_step_stack' = Pop(end_step_stack) /\ UNCHANGED commands_stack
    /\ UNCHANGED << sorts_symbol_table, function_defs, sort_declarations,
                    interpret_integers_as_reals, premises, position,
                    step_indices, subproof_args_stack, anchored >>
    /\ UNCHANGED vars

ParserNext ==
    \/ Problem_declare
    \/ Problem_declare_sort
    \/ Problem_define_fun
    \/ Problem_assert
    \/ Problem_set_logic
    \/ Problem_skip
    \/ Problem_eof
    \/ Proof_assume
    \/ Proof_step
    \/ Proof_define_fun
    \/ Proof_anchor
    \/ Proof_unexpected
    \/ Proof_eof

all_vars == << vars, parser_vars >>

ParserSpec == ParserInit /\ [][ParserNext]_all_vars

(***************************************************************************)
(* Properties of parse_proof and parse_problem.                            *)
(***************************************************************************)
\* The Subproof commands of a list of commands, at any nesting depth, have
\* at least one command and end with a Step.
RECURSIVE SubproofsEndWithStep(_)
SubproofsEndWithStep(commands) ==
    \A k \in 1..Len(commands) :
        commands[k].kind = "Subproof" =>
            /\ commands[k].commands # << >>
            /\ Last(commands[k].commands).kind = "Step"
            /\ SubproofsEndWithStep(commands[k].commands)

\* parse_proof has read a command and goes on with the next one.
ProofGoesOn == phase = "proof" /\ result'.k = "running"

\* The command just read closed the innermost subproof.
ClosesSubproof == ProofGoesOn /\ Len(commands_stack') < Len(commands_stack)

C11_Iteration ==
    /\ \A d \in 1..Len(commands_stack') : SubproofsEndWithStep(commands_stack'[d])
    /\ (phase = "proof" /\ result'.k = "Ok") => SubproofsEndWithStep(result'.value)
    /\ ClosesSubproof =>
           LET subproof == Last(Last(commands_stack'))
           IN  /\ subproof.kind = "Subproof"
               /\ Last(subproof.commands).kind = "Step"
               /\ Last(subproof.commands).index = Last(end_step_stack)
    /\ ( /\ phase = "proof"
         /\ end_step_stack # << >>
         /\ command'.kind = "assume"
         /\ command'.index = Last(end_step_stack)
         /\ parse_assume_command(CurrentState, command').k = "Ok"
         /\ ~IsRepeated(step_indices, command'.index) ) =>
           /\ result' = Err("LastSubproofStepIsNotStep", command'.index)
           /\ commands_stack' = Pop(commands_stack)

\* C11: every Subproof built by parse_proof, at any nesting depth, has at
\* least one command and its last command is a Step carrying the end-step
\* index of the anchor that opened it; an assume that carries the end-step
\* index of the innermost open anchor makes parse_proof fail with
\* LastSubproofStepIsNotStep, and no Subproof is built.
C11_SubproofEndsWithItsEndStep == [][C11_Iteration]_all_vars

\* A subproof of two or more commands has been closed by its end step.
C11_Witness ==
    \E d \in 1..Len(commands_stack) :
        \E k \in 1..Len(commands_stack[d]) :
            /\ commands_stack[d][k].kind = "Subproof"
            /\ Len(commands_stack[d][k].commands) >= 2

\* The index a command is bound to in step_indices: a Subproof is bound to
\* the index of its end step.
IndexOf(cmd) == IF cmd.kind = "Subproof" THEN Last(cmd.commands).index ELSE cmd.index

\* The indices of a frame are pairwise distinct, and so are those of the
\* frames of its Subproofs.
RECURSIVE DistinctIndices(_)
DistinctIndices(commands) ==
    /\ \A j, k \in 1..Len(commands) :
           j # k => IndexOf(commands[j]) # IndexOf(commands[k])
    /\ \A k \in 1..Len(commands) :
           commands[k].kind = "Subproof" => DistinctIndices(commands[k].commands)

\* The assume or step just read is well formed: parse_proof gets to line 452.
ReachesLine452(cmd) ==
    CASE cmd.kind = "assume" -> parse_assume_command(CurrentState, cmd).k = "Ok"
      [] cmd.kind = "step" ->
            /\ parse_step_command(CurrentState, cmd).k = "Ok"
            /\ ResolvePremises(step_indices,
                               parse_step_command(CurrentState, cmd).term.premises).k = "Some"
      [] OTHER -> FALSE

C12_Iteration ==
    /\ \A d \in 1..Len(commands_stack') : DistinctIndices(commands_stack'[d])
    /\ (phase = "proof" /\ result'.k = "Ok") => DistinctIndices(result'.value)
    /\ ( /\ phase = "proof"
         /\ command'.kind \in {"assume", "step"}
         /\ ReachesLine452(command')
         /\ command'.index \in DOMAIN Last(step_indices) ) =>
           /\ result' = Err("RepeatedStepIndex", command'.index)
           /\ commands_stack' = commands_stack

\* C12: the indices of the commands of one frame are pairwise distinct, in
\* every frame at any depth and in the list parse_proof returns; an assume
\* or step whose index is already bound in the current scope makes
\* parse_proof fail with RepeatedStepIndex and is added to no frame.
C12_IndicesOfAScopeAreDistinct == [][C12_Iteration]_all_vars

\* parse_proof has failed on an index bound in the current scope.
C12_Witness ==
    /\ result.k = "Err"
    /\ result.err = "RepeatedStepIndex"
    /\ result.index \in DOMAIN Last(step_indices)
    /\ \E k \in 1..Len(Last(commands_stack)) :
           IndexOf(Last(commands_stack)[k]) = result.index

\* The Step that parse_proof has just added: the last command of the
\* innermost frame, or the end step of the Subproof it closed.
NewStep ==
    LET added == Last(Last(commands_stack'))
    IN  IF added.kind = "Subproof" THEN Last(added.commands) ELSE added

\* The pair recorded for the premise called name is what get_with_depth
\* gives for it, and the command at that place of the frames, as they were
\* before the step was read, is the one bound to name.
DesignatesEarlier(pair, name) ==
    /\ pair = get_with_depth(step_indices, name).v
    /\ get_with_depth(step_indices, name).k = "Some"
    /\ pair[1] \in 0..(Len(commands_stack) - 1)
    /\ LET frame == commands_stack[Len(commands_stack) - pair[1]]
       IN  /\ pair[2] + 1 \in 1..Len(frame)
           /\ IndexOf(frame[pair[2] + 1]) = name
           /\ name # command'.index

C13_Iteration ==
    (ProofGoesOn /\ command'.kind = "step" /\ command'.rule # "trust") =>
        /\ NewStep.kind = "Step"
        /\ NewStep.index = command'.index
        /\ Len(NewStep.premises) = Len(command'.premises)
        /\ \A j \in 1..Len(command'.premises) :
               DesignatesEarlier(NewStep.premises[j], command'.premises[j])

\* C13: each premise recorded in a Step is the pair (depth, position) that
\* step_indices.get_with_depth gives for its name when the step is parsed;
\* the command at that position of the frame of the scope at that depth
\* was parsed before the step and is the assume, step or closed Subproof
\* bound to the name, so a step refers neither to itself nor to a later
\* command.
C13_PremisesDesignateEarlierCommands == [][C13_Iteration]_all_vars

\* A step inside a subproof refers to a command of the enclosing frame, or
\* a step refers to a closed Subproof of its own frame.
C13_Witness ==
    \E d \in 1..Len(commands_stack) :
        \E k \in 1..Len(commands_stack[d]) :
            /\ commands_stack[d][k].kind = "Step"
            /\ \E j \in 1..Len(commands_stack[d][k].premises) :
                   \/ commands_stack[d][k].premises[j][1] = 1
                   \/ /\ commands_stack[d][k].premises[j][1] = 0
                      /\ commands_stack[d][commands_stack[d][k].premises[j][2] + 1].kind
                             = "Subproof"

\* The indices of the commands of the open frames: what a premise may name.
OpenIndices ==
    UNION {{IndexOf(commands_stack[d][k]) : k \in 1..Len(commands_stack[d])} :
               d \in 1..Len(commands_stack)}

\* The first premise of the step that names no command of an open frame.
FirstUnknown(names) ==
    names[CHOOSE j \in 1..Len(names) :
              /\ names[j] \notin OpenIndices
              /\ \A l \in 1..(j - 1) : names[l] \in OpenIndices]

C14_Iteration ==
    /\ \A d \in 1..Len(step_indices) :
           /\ d <= Len(commands_stack)
           /\ DOMAIN step_indices[d] =
                  {IndexOf(commands_stack[d][k]) : k \in 1..Len(commands_stack[d])}
    /\ ( /\ phase = "proof"
         /\ command'.kind = "step"
         /\ command'.rule # "trust"
         /\ parse_step_command(CurrentState, command').k = "Ok"
         /\ \E j \in 1..Len(command'.premises) : command'.premises[j] \notin OpenIndices ) =>
           /\ result' = Err("UndefinedStepIndex", FirstUnknown(command'.premises))
           /\ commands_stack' = commands_stack

\* C14: the indices visible in step_indices are those of the commands of
\* the open frames, a closed Subproof under the index of its end step; a
\* non-trust step with a premise that names none of them (an index never
\* defined, its own, one defined later, or one of a command inside a closed
\* subproof other than its end step) makes parse_proof fail with
\* UndefinedStepIndex.
C14_UnknownPremiseIsUndefinedStepIndex == [][C14_Iteration]_all_vars

\* parse_proof has failed on a premise that names a command inside a closed
\* subproof.
C14_Witness ==
    /\ result.k = "Err"
    /\ result.err = "UndefinedStepIndex"
    /\ \E k \in 1..Len(Last(commands_stack)) :
           /\ Last(commands_stack)[k].kind = "Subproof"
           /\ \E j \in 1..(Len(Last(commands_stack)[k].commands) - 1) :
                  IndexOf(Last(commands_stack)[k].commands[j]) = result.index

C15_Iteration ==
    /\ phase = "proof" => Len(commands_stack) = Len(end_step_stack) + 1
    /\ (phase = "proof" /\ command'.kind = "eof") =>
           /\ result'.k = "Ok" <=> end_step_stack = << >>
           /\ result'.k = "Ok" => result'.value = commands_stack[1]
           /\ result'.k # "Ok" =>
                  /\ result' = Err("UnclosedSubproof", Last(end_step_stack))
                  /\ "value" \notin DOMAIN result'
    /\ (phase = "proof" /\ result'.k = "Ok") => command'.kind = "eof"

\* C15: end_step_stack holds the end-step index of every anchor not yet
\* closed; at the end of the input parse_proof returns the top-level
\* command list iff it is empty, and otherwise fails with UnclosedSubproof
\* naming the end-step index of the innermost open anchor and returns no
\* command list.
C15_EofClosedOrUnclosedSubproof == [][C15_Iteration]_all_vars

\* The input ended inside two nested subproofs with different end steps.
C15_Witness ==
    /\ result.k = "Err"
    /\ result.err = "UnclosedSubproof"
    /\ end_step_stack # << >>
    /\ result.index # end_step_stack[1]

\* C16: scopes are released on every exit path: when an iteration of
\* parse_problem or parse_proof returns an error, the sort symbol table and
\* step_indices have no more scopes than before the command was read, so
\* every scope pushed by a quantifier, a let, a define-fun body or an anchor
\* inside the command has been popped.
C16_ScopesReleasedOnError ==
    [][result'.k = "Err" =>
           /\ Len(sorts_symbol_table') <= Len(sorts_symbol_table)
           /\ Len(step_indices') <= Len(step_indices)]_all_vars

\* C17: (choice (x s) body) binds x in a scope of its own: once an asserted
\* choice term is parsed, the visible bindings of the sort symbol table are
\* those before it, so x is not visible afterwards and an earlier binding of
\* x has its original sort again.
C17_ChoiceRestoresBindings ==
    [][(phase = "problem" /\ command'.kind = "assert" /\ command'.term.form = "choice"
            /\ result'.k # "Err") =>
           Visible(sorts_symbol_table') = Visible(sorts_symbol_table)]_all_vars

\* The command just read is a quantifier or a let, asserted or assumed, or
\* a define-fun, and it was parsed.
ParsedBinder ==
    /\ result'.k # "Err"
    /\ \/ /\ command'.kind \in {"assert", "assume"}
          /\ command'.term.form \in {"quant", "let"}
       \/ command'.kind = "define-fun"

C18_Iteration ==
    /\ (ParsedBinder /\ ~ClosesSubproof) =>
           /\ Visible(sorts_symbol_table') = Visible(sorts_symbol_table)
           /\ Len(sorts_symbol_table') = Len(sorts_symbol_table)
    /\ ClosesSubproof =>
           /\ Visible(sorts_symbol_table') = Last(anchored)
           /\ Len(sorts_symbol_table') = Len(sorts_symbol_table) - 1
           /\ Len(step_indices') = Len(step_indices) - 1
           /\ LET inner == Last(Last(commands_stack')).commands
              IN  \A k \in 1..(Len(inner) - 1) :
                      /\ get(step_indices', IndexOf(inner[k])).k = "None"
                      /\ get_with_depth(step_indices', IndexOf(inner[k])).k = "None"

\* C18: on successful parses a scope lives as long as its construct: after
\* a quantifier, a let or a define-fun is parsed the visible bindings of
\* the sort symbol table are those before it, after the end step of a
\* subproof they are those before its anchor, and the indices of the
\* commands inside the closed subproof (its end step apart, whose index
\* now names the Subproof) are not resolvable in step_indices.
C18_ScopesLiveTheirConstruct == [][C18_Iteration]_all_vars

\* A subproof with an anchor argument and an inner command has been closed:
\* the argument is not visible and the inner index is not resolvable.
C18_Witness ==
    /\ phase = "proof"
    /\ \E k \in 1..Len(Last(commands_stack)) :
           LET subproof == Last(commands_stack)[k]
           IN  /\ subproof.kind = "Subproof"
               /\ subproof.variable_args # << >>
               /\ Len(subproof.commands) >= 2
               /\ get(sorts_symbol_table, subproof.variable_args[1][1]).k = "None"
               /\ get(step_indices, IndexOf(subproof.commands[1])).k = "None"

\* C19: the term of every (assert t) of the problem has sort Bool: a term of
\* another sort is rejected with a sort error and not inserted, so every
\* term of the premises set has sort Bool.
C19_PremisesAreBool == \A t \in premises : SortOf(t) = "Bool"

\* (assert (= 1 x))
OneIsX == AssertCommand(SApp("=", << SNumeral(1), SSymbol("x") >>))

C20_Iteration ==
    /\ (phase = "problem" /\ command'.kind = "set-logic") =>
           /\ result'.k # "Err"
           /\ interpret_integers_as_reals' <=>
                  command'.logic \in {"LRA", "QF_LRA", "QF_NRA", "QF_RDL", "QF_UFLRA",
                                      "QF_UFNRA", "UFLRA"}
    /\ (phase = "problem" /\ command'.kind # "set-logic") =>
           interpret_integers_as_reals' = interpret_integers_as_reals
    /\ (phase = "problem" /\ command'.kind = "assert" /\ command'.term.form = "numeral") =>
           premises' = premises \cup
               {IF interpret_integers_as_reals
                THEN RealLit(FromInteger(command'.term.num))
                ELSE IntLit(command'.term.num)}
    /\ (phase = "problem" /\ command' = OneIsX
            /\ get(sorts_symbol_table, "x") = Some("Real")
            /\ "x" \notin DOMAIN function_defs) =>
           /\ result'.k # "Err" <=> interpret_integers_as_reals
           /\ interpret_integers_as_reals =>
                  premises' = premises \cup
                      {Op("=", << RealLit(FromInteger(1)), Var("x", "Real") >>)}

\* C20: (set-logic L) never fails and sets interpret_integers_as_reals to
\* true iff L is LRA, QF_LRA, QF_NRA, QF_RDL, QF_UFLRA, QF_UFNRA or UFLRA;
\* no other command of the problem changes the flag; a numeral read in the
\* problem is a rational terminal iff the flag is true and an integer
\* terminal otherwise, so that (assert (= 1 x)) with x:Real is accepted
\* iff the flag is true.
C20_SetLogicDecidesNumerals == [][C20_Iteration]_all_vars

\* After a logic with reals only, (assert (= 1 x)) with x:Real is accepted.
C20_Witness ==
    /\ phase = "problem"
    /\ interpret_integers_as_reals
    /\ command = OneIsX
    /\ result.k = "running"
    /\ Op("=", << RealLit(FromInteger(1)), Var("x", "Real") >>) \in premises

\* The terms the problem asserts, as they are written.
AssertedAsWritten ==
    UNION {{problem[j].term : j \in {l \in 1..Len(problem) : problem[l].kind = "assert"}} :
               problem \in Problems}

\* C21: the numerals of the proof are read as those of the problem are: the
\* problem names a logic with reals only, so an assume whose term is
\* written as an assertion of the problem is accepted and its term is
\* that premise.
C21_ProofReadsNumeralsAsTheProblem ==
    [][(phase = "proof" /\ command'.kind = "assume"
            /\ command'.term \in AssertedAsWritten
            /\ ~IsRepeated(step_indices, command'.index)
            /\ (end_step_stack = << >> \/ Last(end_step_stack) # command'.index)) =>
           /\ result'.k # "Err"
           /\ Last(Last(commands_stack')).kind = "Assume"
           /\ Last(Last(commands_stack')).term \in premises]_all_vars

(***************************************************************************)
(* make_op on its own: parse_application (lines 882-888) calls it with an  *)
(* operator and the arguments it has parsed.                               *)
(***************************************************************************)
MaxArgs == 3

ArgumentSorts == {"Bool", "Int", "Real", ArraySort("Int", "Bool")}

\* The argument lists make_op is called with: one term of each sort.
ArgumentLists ==
    UNION {{[j \in 1..len |-> Var("v", sorts[j])] : sorts \in [1..len -> ArgumentSorts]} :
               len \in 0..MaxArgs}

MakeOpCommand(op, ts) == [kind |-> "make_op", op |-> op, args |-> ts]

MakeOpInit ==
    /\ CheckerIdle
    /\ MetricsIdle
    /\ StateIs(NewState)
    /\ step_indices = SymbolTable_new
    /\ premises = {}
    /\ commands_stack = << << >> >>
    /\ end_step_stack = << >>
    /\ subproof_args_stack = << >>
    /\ anchored = << >>
    /\ position = 0
    /\ result = Running
    /\ error_position = NoPosition
    /\ phase = "make_op"
    /\ \E op \in Operators : \E ts \in ArgumentLists : command = MakeOpCommand(op, ts)

\* make_op returns the interned term or the error
Make_op ==
    /\ phase = "make_op"
    /\ \E r \in {make_op(CurrentState, command.op, command.args)} :
           /\ result' = IF r.k = "Err" THEN Err(r.err, "") ELSE Ok(r.term)
           /\ error_position' = IF r.k = "Err" THEN TokenAt(1, "head", 0)
                                ELSE error_position
    /\ phase' = "done"
    /\ UNCHANGED << sorts_symbol_table, function_defs, sort_declarations,
                    interpret_integers_as_reals, premises, position, command >>
    /\ UNCHANGED proof_locals
    /\ UNCHANGED vars

MakeOpSpec == MakeOpInit /\ [][Make_op]_all_vars

\* make_op has returned.
MadeOp == phase = "done" /\ command.kind = "make_op"

\* The sorts of the arguments make_op was called with.
SortsOfArgs == [j \in 1..Len(command.args) |-> SortOf(command.args[j])]

\* The row of the sort table for the operator.
SortTableRow(op, sorts) ==
    LET len == Len(sorts)
        Each(S) == \A j \in 1..len : sorts[j] \in S
    IN  CASE op = "not" -> len = 1 /\ Each({"Bool"})
          [] op = "=>" -> len >= 2 /\ Each({"Bool"})
          [] op \in {"or", "and", "xor"} -> len >= 1 /\ Each({"Bool"})
          [] op \in {"=", "distinct"} ->
                len >= 2 /\ \A j, k \in 1..len : sorts[j] = sorts[k]
          [] op = "ite" -> len = 3 /\ sorts[1] = "Bool" /\ sorts[2] = sorts[3]
          [] op \in {"+", "*", "div", "/"} -> len >= 2 /\ (Each({"Int"}) \/ Each({"Real"}))
          [] op = "-" -> len >= 1 /\ (Each({"Int"}) \/ Each({"Real"}))
          [] op \in {"<", ">", "<=", ">="} -> len >= 2 /\ Each({"Int", "Real"})

\* C22: for the operators other than select and store and every argument
\* list, make_op returns the Op term of the operator and the arguments iff
\* the number and the sorts of the arguments satisfy the operator's row of
\* the sort table; otherwise it returns WrongNumberOfArgs or SortError and
\* no term.
C22_MakeOpFollowsSortTable ==
    (MadeOp /\ command.op \notin {"select", "store"}) =>
        /\ result.k = "Ok" <=> SortTableRow(command.op, SortsOfArgs)
        /\ result.k = "Ok" => result.value = Op(command.op, command.args)
        /\ result.k # "Ok" =>
               /\ result.k = "Err"
               /\ result.err \in {"WrongNumberOfArgs", "SortError"}
               /\ "value" \notin DOMAIN result

\* A comparison of an Int and a Real was interned, and an implication with
\* an Int argument was rejected.
C22_Witness ==
    /\ MadeOp
    /\ \/ /\ command.op = "<"
          /\ SortsOfArgs = << "Int", "Real" >>
          /\ result.k = "Ok"
       \/ /\ command.op = "=>"
          /\ SortsOfArgs = << "Bool", "Int" >>
          /\ result = Err("SortError", "")

\* C23: make_op builds a select term only from two arguments of sorts
\* Array(X, Y) and X, and a store term only from three arguments of sorts
\* Array(X, Y), X and Y.
C23_SelectAndStoreAreWellSorted ==
    (MadeOp /\ result.k = "Ok") =>
        /\ command.op = "select" =>
               /\ Len(command.args) = 2
               /\ IsArray(SortsOfArgs[1])
               /\ SortsOfArgs[2] = ArrayIndex(SortsOfArgs[1])
        /\ command.op = "store" =>
               /\ Len(command.args) = 3
               /\ IsArray(SortsOfArgs[1])
               /\ SortsOfArgs[2] = ArrayIndex(SortsOfArgs[1])
               /\ SortsOfArgs[3] = ArrayElement(SortsOfArgs[1])

\* The heads parse_problem looks into.
KnownHeads ==
    {"declare-fun", "declare-const", "declare-sort", "define-fun", "assert", "set-logic"}

\* C24: a problem command with another head, closed by its parenthesis, is
\* read up to and including that parenthesis and no further; no error is
\* raised, declarations, definitions, premises and the logic flag are
\* unchanged, and parse_problem goes on with the next command.
C24_OtherCommandsAreSkipped ==
    [][(phase = "problem" /\ command'.kind \notin KnownHeads \cup {"eof"}
            /\ command'.closed) =>
           /\ read_until_close_parens(CommandTokens(command')) =
                  Some(Len(command'.rest) + 1)
           /\ result' = Running
           /\ phase' = "problem"
           /\ position' = position + 1
           /\ UNCHANGED << sorts_symbol_table, function_defs, sort_declarations,
                           premises, interpret_integers_as_reals >>]_all_vars

\* A command with nested parentheses was skipped after a declaration or an
\* assertion was read, and the parser goes on.
C24_Witness ==
    /\ phase = "problem"
    /\ command.kind = "get-value"
    /\ result = Running
    /\ position = 2
    /\ premises # {}


C25_Iteration ==
    ( /\ phase = "proof"
      /\ command'.kind = "step"
      /\ command'.rule = "trust"
      /\ parse_step_command(CurrentState, command').k = "Ok" ) =>
        /\ parse_step_command(CurrentState, command').term.premises = << >>
        /\ parse_step_command(CurrentState, command').term.args = << >>
        /\ parse_step_command(CurrentState, command').term.discharge = << >>
        /\ IsRepeated(step_indices, command'.index) =>
               result' = Err("RepeatedStepIndex", command'.index)
        /\ ~IsRepeated(step_indices, command'.index) =>
               /\ result' = Running
               /\ NewStep = parse_step_command(CurrentState, command').term
               /\ get(step_indices', command'.index).k = "Some"
               /\ (end_step_stack # << >> /\ Last(end_step_stack) = command'.index) =>
                      /\ Len(commands_stack') = Len(commands_stack) - 1
                      /\ end_step_stack' = Pop(end_step_stack)
                      /\ Last(Last(commands_stack')).kind = "Subproof"

\* C25: a step whose rule is trust is built with empty premises, arguments
\* and discharge whatever it wrote after the rule, so a premise it names is
\* never looked up and cannot be UndefinedStepIndex; its index is bound in
\* step_indices, a repeated index is RepeatedStepIndex, and a trust step
\* whose index is the awaited end step closes the subproof.
C25_TrustStepDropsItsAttributes == [][C25_Iteration]_all_vars

\* A trust step that wrote a premise naming no command closed a subproof.
C25_Witness ==
    /\ phase = "proof"
    /\ command.kind = "step"
    /\ command.rule = "trust"
    /\ command.premises # << >>
    /\ \A j \in 1..Len(command.premises) : command.premises[j] \notin OpenIndices
    /\ result = Running
    /\ Last(Last(commands_stack)).kind = "Subproof"
    /\ Last(Last(Last(commands_stack)).commands).rule = "trust"
    /\ Last(Last(Last(commands_stack)).commands).premises = << >>


\* The terms a command spells at its top level, and the names it gives
\* with :named.
TermsOf(cmd) ==
    CASE cmd.kind \in {"assert", "assume"} /\ "term" \in DOMAIN cmd -> {cmd.term}
      [] cmd.kind = "step" -> {cmd.clause[j] : j \in 1..Len(cmd.clause)}
      [] OTHER -> {}

NamedBy(cmd) ==
    {sx.name : sx \in {t \in TermsOf(cmd) : t.form = "!" /\ t.attribute = "named"}}

Defines(cmd, name) ==
    \/ cmd.kind = "define-fun" /\ cmd.name = name
    \/ name \in NamedBy(cmd)

C26_Iteration ==
    /\ \A name \in DOMAIN function_defs :
           /\ name \in DOMAIN function_defs'
           /\ ~Defines(command', name) => function_defs'[name] = function_defs[name]
    /\ \A name \in DOMAIN function_defs' :
           function_defs'[name].params = << >> =>
               parse_term(CurrentState', SSymbol(name)) =
                   POk(function_defs'[name].body, CurrentState')
    /\ result' = Running =>
           /\ \A name \in NamedBy(command') : name \in DOMAIN function_defs'
           /\ command'.kind = "define-fun" =>
                  /\ command'.name \in DOMAIN function_defs'
                  /\ phase = "proof" => commands_stack' = commands_stack

\* C26: an entry of function_defs is never removed, by the close of a
\* subproof or otherwise, and changes only when a command defines its name
\* again; a define-fun, of the problem or of the proof where it adds no
\* command, and a :named annotation leave their name defined; a bare symbol
\* that names a nullary definition is read as the definition's body.
C26_DefinitionsAreGlobalAndPersistent == [][C26_Iteration]_all_vars

\* The end step of a subproof named its clause n; after the subproof was
\* closed an assume that spells n was read as that clause.
C26_Witness ==
    /\ phase = "proof"
    /\ result = Running
    /\ command = AssumeCommand("h1", SSymbol("n"))
    /\ "n" \in DOMAIN function_defs
    /\ Len(Last(commands_stack)) >= 2
    /\ Last(Last(commands_stack)).kind = "Assume"
    /\ Last(Last(commands_stack)).term = function_defs["n"].body
    /\ \E k \in 1..Len(Last(commands_stack)) :
           /\ Last(commands_stack)[k].kind = "Subproof"
           /\ Last(Last(commands_stack)[k].commands).clause = << function_defs["n"].body >>


\* The value of an anchor assignment is a bare symbol that names no function
\* definition and is not a variable of the sort the assignment gives.
ValueIsNoTermOfSort(arg) ==
    /\ arg.assign
    /\ arg.value.form = "symbol"
    /\ arg.value.name \notin DOMAIN function_defs
    /\ arg.value.name # arg.name
    /\ parse_sort(CurrentState, arg.sort).k = "Ok"
    /\ get(sorts_symbol_table, arg.value.name) #
           Some(parse_sort(CurrentState, arg.sort).term)

\* C27: an anchor whose first argument assigns a bare symbol that is
\* undeclared, or declared with another sort than the assignment gives,
\* fails with an error, and the sort the symbol is bound to is not altered.
C27_AnchorValueIsATermOfTheSort ==
    [][(phase = "proof" /\ command'.kind = "anchor" /\ command'.args # << >>
            /\ ValueIsNoTermOfSort(command'.args[1])) =>
           /\ result'.k = "Err"
           /\ get(sorts_symbol_table', command'.args[1].value.name) =
                  get(sorts_symbol_table, command'.args[1].value.name)]_all_vars


\* C28: when f has a nullary function definition, the f in the body of
\* (forall ((f Bool)) f) is the variable the quantifier binds: the
\* assertion is read as the quantified variable f of sort Bool and added to
\* the premises.
C28_BindersShadowDefinitions ==
    [][(/\ phase = "problem"
        /\ command' = AssertCommand(ForallF)
        /\ "f" \in DOMAIN function_defs
        /\ function_defs["f"].params = << >>) =>
           /\ result' = Running
           /\ premises' = premises \cup
                  {Quant("forall", << << "f", "Bool" >> >>, Var("f", "Bool"))}]_all_vars


\* C29: an UndefinedStepIndex error carries the position of the premise
\* symbol that names the unknown index, and a RepeatedStepIndex error the
\* position of the index symbol of the command that repeats it.
C29_ErrorsCarryTheTriggeringToken ==
    /\ (result.k = "Err" /\ result.err = "UndefinedStepIndex") =>
           /\ error_position.command = position
           /\ error_position.token = "premise"
           /\ error_position.nth \in 1..Len(command.premises)
           /\ command.premises[error_position.nth] = result.index
    /\ (result.k = "Err" /\ result.err = "RepeatedStepIndex") =>
           /\ error_position.command = position
           /\ error_position.token = "index"


(***************************************************************************)
(* Metrics on its own: calls of add on a new Metrics, and on a Metrics     *)
(* that 2^32 - 2 calls add(k1, Duration::ZERO) have left.                  *)
(***************************************************************************)
AfterManyZeroSamples ==
    /\ metrics = [total |-> 0, count |-> Usize(Limb - 1, Limb - 2), mean |-> 0,
                  max_min |-> Some(<< << "k1", 0 >>, << "k1", 0 >> >>)]
    /\ history = [earlier |-> Usize(Limb - 1, Limb - 2), samples |-> << >>]

MetricsInit ==
    /\ CheckerIdle
    /\ Parser_new
    /\ phase = "metrics"
    /\ MetricsIdle \/ AfterManyZeroSamples

\* One call of add
Add_sample ==
    /\ phase = "metrics"
    /\ Len(history.samples) < MaxSamples
    /\ \E key \in Keys, value \in Durations :
           \E r \in {Metrics_add(metrics, key, value)} :
               /\ metrics' = r.v
               /\ phase' = IF r.k = "Panic" THEN "panicked" ELSE "metrics"
               /\ history' = [history EXCEPT !.samples = Append(@, << key, value >>)]
    /\ UNCHANGED << rule, conclusion, args, pc, i, item, acc_op, acc, verdict >>
    /\ UNCHANGED << sorts_symbol_table, function_defs, sort_declarations,
                    interpret_integers_as_reals, premises, position, command,
                    result, error_position >>
    /\ UNCHANGED proof_locals

MetricsSpec == MetricsInit /\ [][Add_sample]_all_vars

\* The sum of the durations of the samples, and the number of calls of add.
RECURSIVE SumOf(_)
SumOf(samples) ==
    IF samples = << >> THEN 0 ELSE samples[Len(samples)][2] + SumOf(Pop(samples))

RECURSIVE Plus(_, _)
Plus(c, k) == IF k = 0 THEN c ELSE Successor(Plus(c, k - 1))

NumberOfCalls == Plus(history.earlier, Len(history.samples))

\* C30: every call of add returns, and after it total is the sum of the
\* durations added so far, count the number of calls, and mean the
\* quotient of total by count in whole nanoseconds.
C30_TotalCountAndMean ==
    history.samples # << >> =>
        /\ phase = "metrics"
        /\ metrics.total = SumOf(history.samples)
        /\ metrics.count = NumberOfCalls
        /\ DurationDiv(metrics.total, NumberOfCalls) = Some(metrics.mean)


\* The samples added so far, in the order of the calls; the earlier calls,
\* all add(k1, Duration::ZERO), stand as one.
AllSamples ==
    (IF history.earlier = Usize(0, 0) THEN << >> ELSE << << "k1", 0 >> >>)
        \o history.samples

\* The first sample of AllSamples with the largest duration, and the first
\* with the smallest.
FirstLargest ==
    AllSamples[CHOOSE j \in 1..Len(AllSamples) :
                   /\ \A l \in 1..Len(AllSamples) : AllSamples[l][2] <= AllSamples[j][2]
                   /\ \A l \in 1..(j - 1) : AllSamples[l][2] < AllSamples[j][2]]

FirstSmallest ==
    AllSamples[CHOOSE j \in 1..Len(AllSamples) :
                   /\ \A l \in 1..Len(AllSamples) : AllSamples[l][2] >= AllSamples[j][2]
                   /\ \A l \in 1..(j - 1) : AllSamples[l][2] > AllSamples[j][2]]

\* C31: after every call of add that returns, max() is the first sample
\* that has the largest duration added and min() the first that has the
\* smallest, key and duration; after one sample both are that sample.
C31_MaxAndMinKeepTheFirst ==
    (phase = "metrics" /\ AllSamples # << >>) =>
        /\ Metrics_max(metrics) = Some(FirstLargest)
        /\ Metrics_min(metrics) = Some(FirstSmallest)
        /\ Len(AllSamples) = 1 =>
               /\ Metrics_max(metrics) = Some(AllSamples[1])
               /\ Metrics_min(metrics) = Some(AllSamples[1])

\* A later sample with another key tied the largest duration and did not
\* replace the first, and a smaller sample is the minimum.
C31_Witness ==
    /\ phase = "metrics"
    /\ \E j, l \in 1..Len(AllSamples) :
           /\ j < l
           /\ AllSamples[j] = FirstLargest
           /\ AllSamples[l][2] = FirstLargest[2]
           /\ AllSamples[l][1] # FirstLargest[1]
           /\ Metrics_max(metrics) = Some(AllSamples[j])
    /\ Metrics_min(metrics) = Some(FirstSmallest)
    /\ FirstLargest[2] > FirstSmallest[2]


(***************************************************************************)
(* Properties of strengthen and of the fold of la_generic.                 *)
(***************************************************************************)
\* The map closure of la_generic has called strengthen for the literal.
Strengthened == rule = "la_generic" /\ pc = "fold" /\ item.at \in {"end", "strengthen"}

\* The least absolute value of the coefficients, 1 when there is none.
LeastAbs(coef) ==
    IF DOMAIN coef = {} THEN One
    ELSE CHOOSE v \in {RAbs(coef[t]) : t \in DOMAIN coef} :
             \A t \in DOMAIN coef : ~RLess(RAbs(coef[t]), v)

\* C32: strengthen, called by la_generic with the operator fop, the
\* disequality flip and the coefficient a, leaves the coefficients as they
\* are; with is_integer = (constant * a is an integer), >= with is_integer
\* changes nothing, > with is_integer gives >= and floor(constant) + the
\* least absolute coefficient (1 when there is none), any other > or >=
\* gives >= and floor(constant) + 1, and = changes nothing; fop is never <
\* or <= and the unreachable arm is not entered.
C32_StrengthenByCases ==
    Strengthened =>
        LET is_integer == RIsInteger(RMul(item.flip.const, item.a))
        IN  /\ item.at = "end"
            /\ item.fop \in {">", ">=", "="}
            /\ item.strong.coef = item.flip.coef
            /\ (item.fop = ">=" /\ is_integer) =>
                   item.op = ">=" /\ item.strong = item.flip
            /\ (item.fop = ">" /\ is_integer) =>
                   /\ item.op = ">="
                   /\ item.strong.const =
                          RAdd(RFloor(item.flip.const), LeastAbs(item.flip.coef))
            /\ (item.fop \in {">", ">="} /\ ~is_integer) =>
                   /\ item.op = ">="
                   /\ item.strong.const = RAdd(RFloor(item.flip.const), One)
            /\ item.fop = "=" => item.op = "=" /\ item.strong = item.flip

\* strengthen was given > with an integer product and coefficients whose
\* least absolute value is not 1.
C32_Witness ==
    /\ Strengthened
    /\ item.fop = ">"
    /\ RIsInteger(RMul(item.flip.const, item.a))
    /\ DOMAIN item.flip.coef # {}
    /\ LeastAbs(item.flip.coef) # One
    /\ item.strong.const = RAdd(RFloor(item.flip.const), LeastAbs(item.flip.coef))


\* The left side is a combination of Int variables with integer
\* coefficients.
IntegerCombination(disequality) ==
    \A t \in DOMAIN disequality.coef :
        /\ t.tag = "var"
        /\ t.sort = "Int"
        /\ RIsInteger(disequality.coef[t])

\* The value of the left side under an assignment.
RECURSIVE LeftValue(_, _, _)
LeftValue(coef, keys, env) ==
    IF keys = {} THEN Zero
    ELSE LET t == CHOOSE t \in keys : TRUE
         IN  RAdd(RMul(coef[t], env[t.name]), LeftValue(coef, keys \ {t}, env))

\* C33: when strengthen refines left > k, over Int variables with integer
\* coefficients, to left >= floor(k) + the least absolute coefficient,
\* every integer assignment that satisfies left > k satisfies the refined
\* disequality.
C33_RefinementIsAConsequence ==
    (/\ Strengthened
     /\ item.at = "end"
     /\ item.fop = ">"
     /\ RIsInteger(RMul(item.flip.const, item.a))
     /\ IntegerCombination(item.flip)) =>
        \A env \in Assignments :
            RLess(item.flip.const,
                  LeftValue(item.flip.coef, DOMAIN item.flip.coef, env)) =>
                ~RLess(LeftValue(item.strong.coef, DOMAIN item.strong.coef, env),
                       item.strong.const)


\* The operators an item can carry, and the operators of the items of the
\* literals folded so far.
ItemOperators == Comparisons \cup {"="}

FoldedOperators == {MapLiteral(conclusion[j], args[j]).op : j \in 1..(i - 1)}

\* What the fold makes of a set of contributed operators, in any order.
Combined(contributed) ==
    IF ">=" \in contributed THEN ">="
    ELSE IF ">" \in contributed THEN ">"
    ELSE "="

\* The closure of the fold on every pair of operators.
FoldOperatorByCases ==
    \A x, o \in ItemOperators :
        FoldOperator(x, o) =
            IF o = ">=" THEN ">=" ELSE IF x = "=" /\ o = ">" THEN ">" ELSE x

\* Two items folded in either order.
FoldOperatorCommutes ==
    \A x, o1, o2 \in ItemOperators :
        FoldOperator(FoldOperator(x, o1), o2) = FoldOperator(FoldOperator(x, o2), o1)

\* C34: the fold of la_generic starts from = and the zero combination; the
\* closure gives >= when the item's operator is >=, > when the accumulator
\* is = and the item's operator is >, and the accumulator's operator
\* otherwise; two items folded in either order give the same operator, and
\* after any number of literals the operator is >= if one of them
\* contributed >=, else > if one contributed >, else =.
C34_FoldCombinesOperators ==
    \* the closure by itself, looked at where a run starts
    /\ pc = "ready" => FoldOperatorByCases /\ FoldOperatorCommutes
    /\ (rule = "la_generic" /\ pc = "map" /\ i = 1) =>
           acc_op = "=" /\ acc = LinearComb_new
    /\ (rule = "la_generic" /\ pc = "decide") =>
           acc_op = Combined(FoldedOperators)

\* Two literals were folded, the first contributed >= and the second =.
C34_Witness ==
    /\ rule = "la_generic"
    /\ pc = "decide"
    /\ i = 3
    /\ MapLiteral(conclusion[1], args[1]).op = ">="
    /\ MapLiteral(conclusion[2], args[2]).op = "="
    /\ acc_op = ">="


\* The fold of the first upto items.
RECURSIVE FoldItems(_, _)
FoldItems(items, upto) ==
    IF upto = 0 THEN [op |-> "=", sum |-> LinearComb_new]
    ELSE LET before == FoldItems(items, upto - 1)
         IN  [op |-> FoldOperator(before.op, items[upto].op),
              sum |-> add(before.sum, items[upto].diseq)]

\* The verdict of la_generic on the items its map closure gives, one for
\* each literal: the first that is not Some ends the run.
VerdictOfItems(items) ==
    LET failed == {j \in 1..Len(items) : items[j].k # "Some"}
    IN  IF failed # {}
        THEN LET first == CHOOSE j \in failed : \A l \in failed : j <= l
             IN  IF items[first].k = "Panic" THEN "abort" ELSE "reject"
        ELSE LET folded == FoldItems(items, Len(items))
             IN  Decide(folded.op, folded.sum)

\* The items of a clause and a list of arguments of the same length.
ItemsOf(clause, arguments) ==
    [j \in 1..Len(clause) |-> MapLiteral(clause[j], arguments[j])]

\* The argument with the sign of its coefficient flipped.
FlipSign(arg) == [arg EXCEPT !.term = Minus(arg.term)]

\* The negation of the literal is an inequality.
NegatesToInequality(phi) ==
    /\ negate_disequality(phi).k = "Some"
    /\ negate_disequality(phi).v.op \in Comparisons

\* C35: the disequality of a literal whose negation is an equality is
\* multiplied by its coefficient a, that of a literal whose negation is an
\* inequality by |a|; the verdict of la_generic is the same when the sign
\* of the coefficient given for a literal that negates to an inequality is
\* flipped.
C35_InequalitiesAreScaledByAbs ==
    /\ (Strengthened /\ item.at = "end") =>
           item.diseq = mul(item.strong,
                            IF item.neg.op = "=" THEN item.a ELSE RAbs(item.a))
    /\ (Done("la_generic") /\ Len(conclusion) # Len(args)) => verdict = "reject"
    /\ (Done("la_generic") /\ Len(conclusion) = Len(args)) =>
           LET items == ItemsOf(conclusion, args)
           IN  /\ verdict = VerdictOfItems(items)
               /\ \A j \in 1..Len(conclusion) :
                      (args[j].tag = "Term" /\ NegatesToInequality(conclusion[j])) =>
                          VerdictOfItems(
                              [items EXCEPT
                                  ![j] = MapLiteral(conclusion[j], FlipSign(args[j]))])
                              = verdict

\* An accepted clause with a negative coefficient for a literal that
\* negates to an inequality.
C35_Witness ==
    /\ Done("la_generic")
    /\ verdict = "accept"
    /\ \E j \in 1..Len(conclusion) :
           /\ NegatesToInequality(conclusion[j])
           /\ Coefficient(args[j]).k = "Some"
           /\ RLess(Coefficient(args[j]).v, Zero)


C36_Iteration ==
    /\ phase = "proof" =>
           /\ Len(commands_stack') >= Len(commands_stack) - 1
           /\ Len(end_step_stack') >= Len(end_step_stack) - 1
    /\ ClosesSubproof =>
           LET end_step == Last(end_step_stack)
               enclosing == Last(commands_stack')
           IN  /\ command'.index = end_step
               /\ Len(commands_stack') = Len(commands_stack) - 1
               /\ end_step_stack' = Pop(end_step_stack)
               /\ Len(step_indices') = Len(step_indices) - 1
               /\ Len(enclosing) = Len(commands_stack[Len(commands_stack) - 1]) + 1
               /\ Last(enclosing).kind = "Subproof"
               /\ get_with_depth(step_indices', end_step)
                      = Some(<< 0, Len(enclosing) - 1 >>)
    /\ (ProofGoesOn /\ command'.kind = "step" /\ command'.rule # "trust") =>
           \A j \in 1..Len(command'.premises) :
               \A d \in 1..Len(commands_stack) :
                   \A k \in 1..Len(commands_stack[d]) :
                       ( /\ commands_stack[d][k].kind = "Subproof"
                         /\ IndexOf(commands_stack[d][k]) = command'.premises[j] ) =>
                           NewStep.premises[j] = << Len(commands_stack) - d, k - 1 >>

\* C36: when a command closes a subproof, the index of its end step is
\* bound in the enclosing scope of step_indices to the position of the
\* Subproof command in the enclosing frame, and a premise of a later step
\* that names the index is recorded as the place of the Subproof command;
\* one command closes one subproof at most, also when the next enclosing
\* anchor has the same end-step index.
C36_EndStepIsBoundToTheSubproof == [][C36_Iteration]_all_vars

\* The inner of two nested subproofs with the same end-step index has been
\* closed, and the outer one is still open.
C36_Witness ==
    /\ phase = "proof"
    /\ end_step_stack # << >>
    /\ \E k \in 1..Len(Last(commands_stack)) :
           /\ Last(commands_stack)[k].kind = "Subproof"
           /\ IndexOf(Last(commands_stack)[k]) = Last(end_step_stack)
           /\ get_with_depth(step_indices, Last(end_step_stack)) = Some(<< 0, k - 1 >>)


\* parse_proof is at the start of an iteration of its loop (line 389).
AtLoopStart == phase = "proof" /\ result.k = "running"

C37_Iteration ==
    /\ AtLoopStart =>
           /\ commands_stack # << >>
           /\ Len(commands_stack) = Len(end_step_stack) + 1
           /\ Len(subproof_args_stack) = Len(end_step_stack)
           /\ Len(step_indices) = Len(end_step_stack) + 1
           /\ Len(sorts_symbol_table) = Len(end_step_stack) + 1
    \* lines 463-467 and 480-482: what is popped is there
    /\ (phase = "proof" /\ command'.kind # "eof"
            /\ Len(commands_stack') < Len(commands_stack)) =>
           /\ end_step_stack # << >>
           /\ subproof_args_stack # << >>
           /\ Len(step_indices) >= 2
           /\ Len(step_indices') = Len(step_indices) - 1
           /\ Len(sorts_symbol_table) >= 2
           /\ Len(sorts_symbol_table') = Len(sorts_symbol_table) - 1
           /\ commands_stack' # << >>
    \* lines 493-502
    /\ (phase = "proof" /\ command'.kind = "eof") =>
           /\ commands_stack # << >>
           /\ Len(commands_stack) # 1 => end_step_stack # << >>

\* C37: at the start of every iteration of the loop of parse_proof,
\* commands_stack is not empty and has one frame more than end_step_stack
\* and subproof_args_stack have entries, and step_indices and the sort
\* symbol table have one scope for each anchor not yet closed above their
\* global scope; no stack is popped or unwrapped when it is empty.
C37_StacksGrowAndShrinkTogether == [][C37_Iteration]_all_vars

\* Two anchors are open and a third subproof has been closed inside them.
C37_Witness ==
    /\ AtLoopStart
    /\ Len(end_step_stack) = 2
    /\ Len(subproof_args_stack) = 2
    /\ Len(step_indices) = 3
    /\ Len(sorts_symbol_table) = 3
    /\ Len(commands_stack) = 3
    /\ \E k \in 1..Len(Last(commands_stack)) :
           Last(commands_stack)[k].kind = "Subproof"


\* C38: the operator a literal contributes to the fold of la_generic is =
\* or >=, and so is the operator the fold has combined, at every step and
\* when the clause is decided; a clause whose literals were all folded is
\* accepted exactly when the coefficient map of the sum is empty and
\* either the operator is = and the constant is not 0, or the operator is
\* >= and the constant is greater than 0.
C38_OnlyEqualsAndGreaterEqAreDecided ==
    /\ (Strengthened /\ item.at = "end") => item.op \in {"=", ">="}
    /\ rule = "la_generic" => acc_op \in {"=", ">="}
    /\ Done("la_generic") =>
           (verdict = "accept" <=>
               /\ C2_Folded
               /\ DOMAIN acc.coef = {}
               /\ \/ acc_op = "=" /\ acc.const # Zero
                  \/ acc_op = ">=" /\ RLess(Zero, acc.const))

\* A clause with a literal whose negation is a strict inequality has been
\* accepted on the operator >=.
C38_Witness ==
    /\ Done("la_generic")
    /\ verdict = "accept"
    /\ acc_op = ">="
    /\ \E j \in 1..Len(conclusion) : MapLiteral(conclusion[j], args[j]).fop = ">"

=============================================================================
